---------------------------- MODULE Spec2Model ----------------------------
(***************************************************************************)
(* Netlist compiler and simulation-result decoder of the circuit           *)
(* simulator: server/utils/simple-spice.ts and                             *)
(* server/utils/ngspice-interface.ts.                                      *)
(*                                                                         *)
(* Text is modelled as a sequence of one-character strings, so that        *)
(* trimming, case folding and the regular expressions of the source are    *)
(* computed and not assumed.  Numbers are exact decimals [m, e] standing   *)
(* for m * 10^e.                                                           *)
(***************************************************************************)
EXTENDS Integers, Sequences, FiniteSets, TLC

VARIABLES
    components,     \* generateSimpleSpiceNetlist: the argument
    i,              \* generateSimpleSpiceNetlist: components processed by the for loop
    netToNodeMap,   \* generateSimpleSpiceNetlist: const netToNodeMap
    lines,          \* generateSimpleSpiceNetlist: device lines pushed by the loop
    pc,             \* position of the running call: "loop" or "done"
    run,            \* which call on the same list is running: 1 or 2
    result,         \* value returned by the running call once pc = "done"
    firstResult,    \* value returned by call 1, kept by the caller
    prevMap,        \* netToNodeMap before the last loop iteration
    prevLines,      \* lines before the last loop iteration
    origin,         \* for each element of lines, the index of the component that pushed it
    rowIndex,       \* a data row of the engine's table: the text of its row index
    rowSep,         \* the text the engine printed between the columns of the row
    rowNums,        \* the texts of the numbers of the row
    parsed,         \* what tokenizeConcatenatedLine returned for the row
    request,        \* simulate, per call: the argument components
    at,             \* per call: the await the call is suspended at
    tempDir,        \* ngspiceInterface.tempDir
    lastNetlist,    \* ngspiceInterface.lastNetlist
    files,          \* the files of the temporary directories, by path
    netlistPath,    \* simulate, per call: directory of const netlistPath
    fullNetlist,    \* simulate, per call: const fullNetlist
    finalNetlist,   \* runNgSpice, per call: const netlist
    scriptPath,     \* runNgSpice, per call: directory of const scriptPath
    engineDeck,     \* per call: the deck the spawned engine loaded
    exitCode,       \* per call: the code the engine closed with
    stdout,         \* runNgSpice, per call: the lines the engine printed
    response,       \* per call: the value simulate returned
    reply,          \* per call: the answer of the route POST /simulate
    spawns,         \* per call: how many engine processes runNgSpice spawned
    declaredKind,   \* kind of the component whose value is parsed
    declared,       \* parseValue: the argument val, the component's value
    quantity,       \* parseValue: the number returned to the emitter
    emitted,        \* the value on the device line of the component
    printed,        \* parseTransientData: the argument output, as its lines
    decoded,        \* parseTransientData: the value returned
    nodeMap,        \* makeEmitter: the netToNodeMap the emitter allocates in
    touched,        \* the net names touch was called with, in order
    returned        \* the node touch returned for each of them

genVars == <<components, i, netToNodeMap, lines, pc, run, result, firstResult,
             prevMap, prevLines, origin>>
tokVars == <<rowIndex, rowSep, rowNums, parsed>>
simVars == <<request, at, tempDir, lastNetlist, files, netlistPath, fullNetlist,
             finalNetlist, scriptPath, engineDeck, exitCode, stdout, response,
             reply, spawns>>

valVars == <<declaredKind, declared, quantity, emitted>>

decVars == <<printed, decoded>>

allocVars == <<nodeMap, touched, returned>>

vars == <<genVars, tokVars, simVars, valVars, decVars, allocVars>>

----------------------------------------------------------------------------
(* Bounds *)

MaxComps == 2
MaxNums == 3
MaxTouches == 4

----------------------------------------------------------------------------
(* Characters and text *)

LowerLetters == <<"a","b","c","d","e","f","g","h","i","j","k","l","m",
                  "n","o","p","q","r","s","t","u","v","w","x","y","z">>
UpperLetters == <<"A","B","C","D","E","F","G","H","I","J","K","L","M",
                  "N","O","P","Q","R","S","T","U","V","W","X","Y","Z">>
Digits == <<"0","1","2","3","4","5","6","7","8","9">>

Range(s) == {s[k] : k \in DOMAIN s}

IsDigit(c) == c \in Range(Digits)
IsLetter(c) == c \in Range(LowerLetters) \cup Range(UpperLetters)
IsSpace(c) == c \in {" ", "\t", "\n", "\r"}

DigitVal(c) == (CHOOSE k \in DOMAIN Digits : Digits[k] = c) - 1

ToUpperChar(c) ==
    IF c \in Range(LowerLetters)
    THEN UpperLetters[CHOOSE k \in DOMAIN LowerLetters : LowerLetters[k] = c]
    ELSE c

ToLowerChar(c) ==
    IF c \in Range(UpperLetters)
    THEN LowerLetters[CHOOSE k \in DOMAIN UpperLetters : UpperLetters[k] = c]
    ELSE c

toUpperCase(s) == [k \in DOMAIN s |-> ToUpperChar(s[k])]
toLowerCase(s) == [k \in DOMAIN s |-> ToLowerChar(s[k])]

RECURSIVE trimStart(_)
trimStart(s) ==
    IF s # << >> /\ IsSpace(Head(s)) THEN trimStart(Tail(s)) ELSE s

RECURSIVE trimEnd(_)
trimEnd(s) ==
    IF s # << >> /\ IsSpace(s[Len(s)])
    THEN trimEnd(SubSeq(s, 1, Len(s) - 1))
    ELSE s

trim(s) == trimEnd(trimStart(s))

\* String.prototype.includes
includes(s, sub) ==
    \E k \in 0..(Len(s) - Len(sub)) : SubSeq(s, k + 1, k + Len(sub)) = sub

----------------------------------------------------------------------------
(* normalizeNet *)

GroundAliases == { <<"0">>, <<"G","N","D">>, <<"G","R","O","U","N","D">>,
                   <<"A","G","N","D">>, <<"D","G","N","D">> }

normalizeNetExact(raw) ==
    IF raw = << >> THEN << >>
    ELSE LET s == trim(raw)
         IN  IF s \in GroundAliases THEN <<"0">> ELSE s

normalizeNet(raw) ==
    IF raw = << >> THEN << >>
    ELSE LET s == trim(raw)
             upper == toUpperCase(s)
         IN  IF upper \in GroundAliases THEN <<"0">> ELSE s

----------------------------------------------------------------------------
(* Numbers: exact decimals m * 10^e, kept normalized (no trailing zero in  *)
(* m, zero as [m |-> 0, e |-> 0]).                                         *)

RECURSIVE Norm(_)
Norm(d) ==
    IF d.m = 0 THEN [m |-> 0, e |-> 0]
    ELSE IF d.m % 10 = 0 THEN Norm([m |-> d.m \div 10, e |-> d.e + 1])
    ELSE d

Dec(m, e) == Norm([m |-> m, e |-> e])

Scale(d, k) == Dec(d.m, d.e + k)

RECURSIVE Pow10(_)
Pow10(k) == IF k = 0 THEN 1 ELSE 10 * Pow10(k - 1)

\* number of digit characters of s from position p on
RECURSIVE DigitRun(_, _)
DigitRun(s, p) ==
    IF p <= Len(s) /\ IsDigit(s[p]) THEN 1 + DigitRun(s, p + 1) ELSE 0

\* value of the n digit characters of s from position p on
RECURSIVE DigitsVal(_, _, _)
DigitsVal(s, p, n) ==
    IF n = 0 THEN 0
    ELSE 10 * DigitsVal(s, p, n - 1) + DigitVal(s[p + n - 1])

CharAt(s, p) == IF p >= 1 /\ p <= Len(s) THEN s[p] ELSE ""

\* (?:[eE][+-]?\d+)? at position p: [len, exp]
ExponentAt(s, p) ==
    IF CharAt(s, p) \in {"e", "E"}
    THEN LET sg == IF CharAt(s, p + 1) \in {"+", "-"} THEN 1 ELSE 0
             n  == DigitRun(s, p + 1 + sg)
             v  == DigitsVal(s, p + 1 + sg, n)
         IN  IF n = 0 THEN [len |-> 0, exp |-> 0]
             ELSE [len |-> 1 + sg + n,
                   exp |-> IF CharAt(s, p + 1) = "-" THEN 0 - v ELSE v]
    ELSE [len |-> 0, exp |-> 0]

----------------------------------------------------------------------------
(* JavaScript objects used as maps (NetToNodeMap, a component's pins): the *)
(* sequence of the entries [key, val] in insertion order.                  *)

EmptyObject == << >>

Keys(obj) == {obj[k].key : k \in DOMAIN obj}
Values(obj) == {obj[k].val : k \in DOMAIN obj}
HasKey(obj, n) == n \in Keys(obj)
Get(obj, n) == obj[CHOOSE k \in DOMAIN obj : obj[k].key = n].val
CountKey(obj, n) == Cardinality({k \in DOMAIN obj : obj[k].key = n})

\* obj[n] = v
Set(obj, n, v) ==
    IF HasKey(obj, n)
    THEN [k \in DOMAIN obj |-> IF obj[k].key = n THEN [key |-> n, val |-> v] ELSE obj[k]]
    ELSE Append(obj, [key |-> n, val |-> v])

\* A key that is a canonical array index ("0", "7", "12"; not "", "07", "A")
IsIndexKey(n) ==
    /\ Len(n) >= 1
    /\ \A k \in DOMAIN n : IsDigit(n[k])
    /\ (Len(n) = 1 \/ n[1] # "0")

RECURSIVE SortByIndex(_, _)
SortByIndex(obj, S) ==
    IF S = {} THEN << >>
    ELSE LET k == CHOOSE k \in S :
                    \A j \in S : DigitsVal(obj[k].key, 1, Len(obj[k].key))
                                 <= DigitsVal(obj[j].key, 1, Len(obj[j].key))
         IN  <<obj[k]>> \o SortByIndex(obj, S \ {k})

\* Object.entries / Object.values order: the index keys in ascending numeric
\* order, then the other keys in insertion order
ObjectEntries(obj) ==
    SortByIndex(obj, {k \in DOMAIN obj : IsIndexKey(obj[k].key)})
        \o SelectSeq(obj, LAMBDA en : ~IsIndexKey(en.key))

Max(S) == CHOOSE x \in S : \A y \in S : y <= x
Min(S) == CHOOSE x \in S : \A y \in S : x <= y

----------------------------------------------------------------------------
(* parseValue *)

NoValue == <<"undefined">>      \* an absent value property
OhmChars == {"<U+03A9>", "<U+2126>"}
Micro == "<U+00B5>"

RemoveChars(s, C) == SelectSeq(s, LAMBDA c : c \notin C)

\* ^([+-]?\d*\.?\d+(?:[eE][+-]?\d+)?)([a-zA-Zµ]*)$
\* [ok, num, suffix]
MatchValue(s) ==
    LET sg   == IF CharAt(s, 1) \in {"+", "-"} THEN 1 ELSE 0
        a    == DigitRun(s, 1 + sg)
        b    == IF CharAt(s, 1 + sg + a) = "." THEN DigitRun(s, 2 + sg + a) ELSE 0
        mlen == IF b > 0 THEN a + 1 + b ELSE a
        mant == IF b > 0
                THEN DigitsVal(s, 1 + sg, a) * Pow10(b) + DigitsVal(s, 2 + sg + a, b)
                ELSE DigitsVal(s, 1 + sg, a)
        ex   == ExponentAt(s, 1 + sg + mlen)
        q    == 1 + sg + mlen + ex.len
        suf  == SubSeq(s, q, Len(s))
        neg  == CharAt(s, 1) = "-"
    IN  IF mlen > 0 /\ \A k \in DOMAIN suf : IsLetter(suf[k]) \/ suf[k] = Micro
        THEN [ok |-> TRUE,
              num |-> Dec(IF neg THEN 0 - mant ELSE mant, ex.exp - b),
              suffix |-> suf]
        ELSE [ok |-> FALSE, num |-> Dec(0, 0), suffix |-> << >>]

\* Number(s) for the texts the pattern of MatchValue rejects: the empty text
\* is 0, a decimal literal ending in "." or with "." before its exponent is
\* its value; any other text is NaN.  [finite, num]
NumberOf(s) ==
    LET sg   == IF CharAt(s, 1) \in {"+", "-"} THEN 1 ELSE 0
        a    == DigitRun(s, 1 + sg)
        dot  == CharAt(s, 1 + sg + a) = "."
        ex   == ExponentAt(s, 2 + sg + a)
        neg  == CharAt(s, 1) = "-"
        mant == DigitsVal(s, 1 + sg, a)
    IN  IF s = << >> THEN [finite |-> TRUE, num |-> Dec(0, 0)]
        ELSE IF a > 0 /\ dot /\ 1 + sg + a + ex.len = Len(s)
        THEN [finite |-> TRUE, num |-> Dec(IF neg THEN 0 - mant ELSE mant, ex.exp)]
        ELSE [finite |-> FALSE, num |-> Dec(0, 0)]

\* a mult table whose test for "m" comes before its test for "meg"
SuffixExpMilliFirst(suffix) ==
    CASE suffix = <<"t">> -> 12
      [] suffix = <<"g">> -> 9
      [] suffix # << >> /\ Head(suffix) = "m" -> -3
      [] suffix = <<"k">> -> 3
      [] suffix = <<"u">> \/ suffix = <<Micro>> -> -6
      [] suffix = <<"n">> -> -9
      [] suffix = <<"p">> -> -12
      [] suffix = <<"f">> -> -15
      [] OTHER -> 0

SuffixExp(suffix) ==
    CASE suffix = <<"t">> -> 12
      [] suffix = <<"g">> -> 9
      [] suffix = <<"m","e","g">> -> 6
      [] suffix = <<"k">> -> 3
      [] suffix = <<"m">> -> -3
      [] suffix = <<"u">> \/ suffix = <<Micro>> -> -6
      [] suffix = <<"n">> -> -9
      [] suffix = <<"p">> -> -12
      [] suffix = <<"f">> -> -15
      [] OTHER -> 0

parseValue(val, fallback) ==
    IF val = NoValue THEN fallback
    ELSE LET s0 == RemoveChars(trim(val), OhmChars)
             s  == RemoveChars(s0, {"_", " ", "\t", "\n", "\r"})
             m  == MatchValue(s)
         IN  IF ~m.ok
             THEN LET n == NumberOf(s) IN IF n.finite THEN n.num ELSE fallback
             ELSE Scale(m.num, SuffixExp(toLowerCase(m.suffix)))

----------------------------------------------------------------------------
(* makeEmitter *)

NextNodeNoIncrement(map) ==
    IF Values(map) = {} THEN 1 ELSE Max(Values(map))

\* const next = used.length === 0 ? 1 : Math.max(...used) + 1
NextNode(map) ==
    IF Values(map) = {} THEN 1 ELSE Max(Values(map)) + 1

\* a touch that allocates a node for every name that is not ground, mapped
\* or not
touchRemapping(map, netName) ==
    LET n == normalizeNet(netName)
    IN  IF n = << >> \/ n = <<"0">> THEN [map |-> map, node |-> 0]
        ELSE [map |-> Set(map, n, NextNode(map)), node |-> NextNode(map)]

\* touch(netName): [map, node], the map after the call and the value returned
touch(map, netName) ==
    LET n == normalizeNet(netName)
    IN  IF n = << >> \/ n = <<"0">> THEN [map |-> map, node |-> 0]
        ELSE IF ~HasKey(map, n)
        THEN [map |-> Set(map, n, NextNode(map)), node |-> NextNode(map)]
        ELSE [map |-> map, node |-> Get(map, n)]

\* nodesOf(...names): [map, nodes], touching the names from left to right
RECURSIVE nodesOf(_, _)
nodesOf(map, names) ==
    IF names = << >> THEN [map |-> map, nodes |-> << >>]
    ELSE LET t == touch(map, Head(names))
             r == nodesOf(t.map, Tail(names))
         IN  [map |-> r.map, nodes |-> <<t.node>> \o r.nodes]

NoNumber == [m |-> 0, e |-> 0]
NoModel == << >>

\* A device line `${letter}${ref} ${nodes...} ${value or model}`
DeviceLine(letter, ref, nodes, value, model) ==
    [dev |-> letter, ref |-> ref, nodes |-> nodes, value |-> value, model |-> model]

\* [map, line]
res(map, ref, a, b, value) ==
    LET t == nodesOf(map, <<a, b>>)
    IN  [map |-> t.map,
         line |-> DeviceLine("R", ref, t.nodes, parseValue(value, Dec(1000, 0)), NoModel)]

cap(map, ref, a, b, value) ==
    LET t == nodesOf(map, <<a, b>>)
    IN  [map |-> t.map,
         line |-> DeviceLine("C", ref, t.nodes, parseValue(value, Dec(1, -6)), NoModel)]

diode(map, ref, a, b, model) ==
    LET t == nodesOf(map, <<a, b>>)
    IN  [map |-> t.map, line |-> DeviceLine("D", ref, t.nodes, NoNumber, model)]

vsource(map, ref, p, n, value) ==
    LET t == nodesOf(map, <<p, n>>)
    IN  [map |-> t.map,
         line |-> DeviceLine("V", ref, t.nodes, parseValue(value, Dec(5, 0)), NoModel)]

npn(map, ref, c, b, e, model) ==
    LET t == nodesOf(map, <<c, b, e>>)
    IN  [map |-> t.map, line |-> DeviceLine("Q", ref, t.nodes, NoNumber, model)]

\* makeEmitter(netToNodeMap): netToNodeMap["0"] = 0
makeEmitter(map) == Set(map, <<"0">>, 0)

----------------------------------------------------------------------------
(* generateSimpleSpiceNetlist *)

DisplayOnlyWithoutNode == {"oscilloscope", "label", "measurement", "multimeter"}

DISPLAY_ONLY_TYPES == {"oscilloscope", "node", "label", "measurement", "multimeter"}

IsDisplayOnlyByKind(comp) == comp.kind \in DISPLAY_ONLY_TYPES

\* DISPLAY_ONLY_TYPES.has(comp.kind) || DISPLAY_ONLY_TYPES.has(comp.type || "")
IsDisplayOnly(comp) ==
    comp.kind \in DISPLAY_ONLY_TYPES \/ comp.type \in DISPLAY_ONLY_TYPES

\* a pin that reads as wired to ground when the component has no such pin
PinNetOrGround(comp, label) ==
    IF HasKey(comp.pins, label) THEN Get(comp.pins, label) ELSE <<"0">>

\* comp.pins?.[label]?.net, << >> standing for undefined and for ""
PinNet(comp, label) ==
    IF HasKey(comp.pins, label) THEN Get(comp.pins, label) ELSE << >>

\* a || b on texts
OrElse(a, b) == IF a = << >> THEN b ELSE a

\* a ?? b on an optional text
Coalesce(a, b) == IF a = NoValue THEN b ELSE a

BC549 == <<"B","C","5","4","9">>
BC337 == <<"B","C","3","3","7">>
D1N4148 == <<"D","1","N","4","1","4","8">>
DZ6V8 == <<"D","Z","6","V","8">>

pickBjtModel(comp) ==
    LET m == toUpperCase(comp.model)
    IN  IF includes(m, BC549) THEN BC549
        ELSE IF includes(m, BC337) THEN BC337
        ELSE IF toUpperCase(comp.ref) = <<"Q","4">> THEN BC549
        ELSE BC337

\* the for loop of case "node" over connectedNets[1..]
RECURSIVE MergeSecondary(_, _, _)
MergeSecondary(map, nets, primaryNode) ==
    IF nets = << >> THEN map
    ELSE LET secondaryNet == normalizeNet(Head(nets))
         IN  MergeSecondary(
                 IF secondaryNet # << >> /\ secondaryNet # <<"0">>
                 THEN Set(map, secondaryNet, primaryNode)
                 ELSE map,
                 Tail(nets), primaryNode)

\* case "node"
Junction(map, comp) ==
    LET entries == ObjectEntries(comp.pins)
        nets == [k \in DOMAIN entries |-> entries[k].val]
        connectedNets == SelectSeq(nets, LAMBDA n : n # << >>)
    IN  IF Len(connectedNets) > 1
        THEN LET t == touch(map, connectedNets[1])
             IN  MergeSecondary(t.map, Tail(connectedNets), t.node)
        ELSE map

Emitted(st, r) == [map |-> r.map, lines |-> Append(st.lines, r.line)]

\* the body of the for loop over components; st = [map, lines]
ProcessComponent(st, comp) ==
    IF IsDisplayOnly(comp) THEN st
    ELSE CASE comp.kind = "resistor" ->
                LET a == PinNet(comp, <<"1">>)
                    b == PinNet(comp, <<"2">>)
                IN  IF a # << >> /\ b # << >>
                    THEN Emitted(st, res(st.map, OrElse(comp.ref, <<"R","?">>), a, b,
                                         Coalesce(comp.value, <<"1","k">>)))
                    ELSE st
           [] comp.kind = "capacitor" ->
                LET a == PinNet(comp, <<"1">>)
                    b == PinNet(comp, <<"2">>)
                IN  IF a # << >> /\ b # << >>
                    THEN Emitted(st, cap(st.map, OrElse(comp.ref, <<"C","?">>), a, b,
                                         Coalesce(comp.value, <<"1","u">>)))
                    ELSE st
           [] comp.kind \in {"led", "diode"} ->
                LET a == PinNet(comp, <<"1">>)
                    b == PinNet(comp, <<"2">>)
                IN  IF a # << >> /\ b # << >>
                    THEN Emitted(st, diode(st.map, OrElse(comp.ref, <<"D","?">>), a, b,
                                           OrElse(comp.model, D1N4148)))
                    ELSE st
           [] comp.kind = "battery" ->
                LET p == PinNet(comp, <<"2">>)
                    n == PinNet(comp, <<"1">>)
                IN  IF p # << >> /\ n # << >>
                    THEN Emitted(st, vsource(st.map, OrElse(comp.ref, <<"V","?">>), p, n,
                                             Coalesce(comp.value, <<"5">>)))
                    ELSE st
           [] comp.kind = "transistor" ->
                LET c == PinNet(comp, <<"C">>)
                    b == PinNet(comp, <<"B">>)
                    e == PinNet(comp, <<"E">>)
                IN  IF c # << >> /\ b # << >> /\ e # << >>
                    THEN Emitted(st, npn(st.map, OrElse(comp.ref, <<"Q","?">>), c, b, e,
                                         pickBjtModel(comp)))
                    ELSE st
           [] comp.kind = "node" ->
                [map |-> Junction(st.map, comp), lines |-> st.lines]
           [] OTHER -> st

Q1E == <<"Q","1","E">>

\* the DNOISE and VNOISE lines pushed when "Q1E" is a key of the map
NoiseLines(map) ==
    IF HasKey(map, Q1E)
    THEN << DeviceLine("DNOISE", << >>, <<0, Get(map, Q1E)>>, NoNumber, DZ6V8),
            DeviceLine("VNOISE", << >>, <<Get(map, Q1E), 0>>, NoNumber, NoModel) >>
    ELSE << >>

\* a node list that does not skip ground
NodeListOfAllEntries(map) ==
    LET entries == ObjectEntries(map)
    IN  [k \in DOMAIN entries |-> entries[k].val]

\* nodeList: v(<node>) for the entries with nodeNum > 0, in Object.entries order
NodeList(map) ==
    LET entries == SelectSeq(ObjectEntries(map), LAMBDA en : en.val > 0)
    IN  [k \in DOMAIN entries |-> entries[k].val]

\* the value returned: the deck (its device lines, the node list of its
\* wrdata and print lines and its last two lines joined by "\n"; the rest of
\* the text is fixed) and the map
EndCards == <<".","e","n","d","c","\n",".","e","n","d">>

BuildResult(map, devLines) ==
    [netlist |-> [devices |-> devLines \o NoiseLines(map), nodeList |-> NodeList(map),
                  ending |-> EndCards],
     netToNodeMap |-> map]

SharedNodeMap == netToNodeMap

\* const netToNodeMap = Object.create(null)
NewNodeMap == EmptyObject

\* generateSimpleSpiceNetlist(comps), as one function
RECURSIVE ProcessAll(_, _)
ProcessAll(st, comps) ==
    IF comps = << >> THEN st
    ELSE ProcessAll(ProcessComponent(st, Head(comps)), Tail(comps))

\* lines 238-303, after the loop has left st
Built(st) == BuildResult(st.map, st.lines)

generateSimpleSpiceNetlist(comps) ==
    Built(ProcessAll([map |-> makeEmitter(EmptyObject), lines |-> << >>], comps))

----------------------------------------------------------------------------
(* Component lists given to generateSimpleSpiceNetlist *)

Pins2(a, b) == << [key |-> <<"1">>, val |-> a], [key |-> <<"2">>, val |-> b] >>
Pins1(a) == << [key |-> <<"1">>, val |-> a] >>
PinsCBE(c, b, e) ==
    << [key |-> <<"C">>, val |-> c], [key |-> <<"B">>, val |-> b],
       [key |-> <<"E">>, val |-> e] >>

Comp(kind, type, ref, value, model, pins) ==
    [kind |-> kind, type |-> type, ref |-> ref, value |-> value,
     model |-> model, pins |-> pins]

NetA == <<"A">>
NetB == <<"B">>
NetX == <<"X">>
NetBlank == <<" ">>
NetGnd == <<" ","G","n","d">>
NetDgnd == <<"d","g","n","d"," ">>
NetZero == <<"0">>

ComponentPool ==
    { Comp("resistor", "", <<"R","1">>, <<"1","k">>, << >>, Pins2(NetA, NetB)),
      Comp("resistor", "", <<"R","2">>, NoValue, << >>, Pins2(NetB, NetGnd)),
      Comp("resistor", "", <<"R","3">>, <<"1","k">>, << >>, Pins2(NetBlank, NetA)),
      Comp("resistor", "", <<"R","4">>, <<"1","k">>, << >>, Pins2(NetA, << >>)),
      Comp("resistor", "multimeter", <<"R","5">>, <<"1","k">>, << >>, Pins2(NetX, NetB)),
      Comp("battery", "", <<"V","1">>, <<"5">>, << >>, Pins2(NetZero, NetA)),
      Comp("capacitor", "", <<"C","1">>, <<"1","u">>, << >>, Pins2(NetB, NetDgnd)),
      Comp("diode", "", <<"D","1">>, NoValue, << >>, Pins2(NetA, Q1E)),
      Comp("transistor", "", <<"Q","1">>, NoValue, << >>, PinsCBE(NetA, NetB, Q1E)),
      Comp("transistor", "", <<"Q","2">>, NoValue, BC549, PinsCBE(NetX, NetB, << >>)),
      Comp("node", "", <<"N","1">>, NoValue, << >>, Pins2(NetA, NetB)),
      Comp("node", "", <<"N","2">>, NoValue, << >>, Pins2(NetB, NetA)),
      Comp("oscilloscope", "", <<"O","1">>, NoValue, << >>, Pins2(NetX, NetZero)),
      Comp("label", "", <<"L","1">>, NoValue, << >>, Pins1(NetA)),
      Comp("measurement", "", <<"M","1">>, NoValue, << >>, Pins1(NetX)),
      Comp("multimeter", "", <<"M","2">>, NoValue, << >>, Pins2(NetB, NetX)),
      Comp("ic", "", <<"U","1">>, NoValue, << >>, Pins2(NetX, NetA)),
      Comp("inductor", "", <<"L","2">>, <<"1","m">>, << >>, Pins2(NetX, NetB)),
      Comp("capacitor", "", <<"C","2">>, <<"1","u">>, << >>, Pins1(NetX)),
      Comp("battery", "", <<"V","2">>, <<"9">>, << >>, Pins2(<< >>, NetX)),
      Comp("led", "", <<"D","2">>, NoValue, << >>, <<[key |-> <<"2">>, val |-> NetX]>>),
      Comp("transistor", "", <<"Q","3">>, NoValue, << >>,
           <<[key |-> <<"C">>, val |-> NetX], [key |-> <<"E">>, val |-> NetA]>>),
      Comp("led", "", <<"D","3">>, NoValue, <<"D","Z","4","V","7">>, Pins2(NetA, NetB)),
      Comp("transistor", "", <<"Q","4">>, NoValue, <<"2","N","3","9","0","4">>,
           PinsCBE(NetA, NetB, NetZero)),
      Comp("transistor", "", <<"Q","5">>, NoValue,
           <<"b","c","3","3","7","/","b","c","5","4","9">>, PinsCBE(NetA, NetB, NetZero)),
      Comp("resistor", "", <<"R","6">>, <<"1","k">>, << >>, Pins2(<<"2">>, <<"1">>)) }

ComponentLists ==
    UNION {[1..n -> ComponentPool] : n \in 0..MaxComps}

----------------------------------------------------------------------------
(* Two calls of generateSimpleSpiceNetlist on one component list *)

NotParsed == [index |-> -1, values |-> << >>]

\* no value returned yet
NoResult == [netlist |-> [devices |-> << >>, nodeList |-> << >>, ending |-> << >>],
             netToNodeMap |-> EmptyObject]

\* the two requests that may be in flight on the shared ngspiceInterface
Calls == {1, 2}

\* tempDir = null; a directory made by init() carries the number of the call
\* that made it
NoDir == 0

\* lastNetlist = null
NoNetlist == [netlist |-> [devices |-> << >>, nodeList |-> << >>, ending |-> << >>],
              netToNodeMap |-> <<[key |-> <<"null">>, val |-> -1]>>]

\* a file that does not exist, a text not yet assigned
NoText == [devices |-> << >>, nodeList |-> << >>, ending |-> << >>]

FileNames == {"circuit.cir", "simulation.cir"}
Paths == Calls \X FileNames

\* no value returned yet by simulate
NoResponse == [success |-> FALSE, error |-> "pending"]
NoReply == [status |-> 0]

\* no simulate() call is made
SimIdle ==
    /\ request = [c \in Calls |-> << >>]
    /\ at = [c \in Calls |-> "idle"]
    /\ tempDir = NoDir
    /\ lastNetlist = NoNetlist
    /\ files = [p \in Paths |-> NoText]
    /\ netlistPath = [c \in Calls |-> NoDir]
    /\ fullNetlist = [c \in Calls |-> NoText]
    /\ finalNetlist = [c \in Calls |-> NoText]
    /\ scriptPath = [c \in Calls |-> NoDir]
    /\ engineDeck = [c \in Calls |-> NoText]
    /\ exitCode = [c \in Calls |-> -1]
    /\ stdout = [c \in Calls |-> << >>]
    /\ response = [c \in Calls |-> NoResponse]
    /\ reply = [c \in Calls |-> NoReply]
    /\ spawns = [c \in Calls |-> 0]

\* parseValue not called yet
NotReturned == [done |-> FALSE]

ValIdle ==
    /\ declaredKind = "none"
    /\ declared = NoValue
    /\ quantity = NotReturned
    /\ emitted = NotReturned

\* parseTransientData not called
NotDecoded == [kind |-> "pending"]

DecIdle ==
    /\ printed = << >>
    /\ decoded = NotDecoded

\* no emitter made
AllocIdle ==
    /\ nodeMap = << >>
    /\ touched = << >>
    /\ returned = << >>

TokIdle ==
    /\ rowIndex = << >>
    /\ rowSep = << >>
    /\ rowNums = << >>
    /\ parsed = NotParsed

GenInit ==
    /\ components \in ComponentLists
    /\ i = 0
    /\ netToNodeMap = EmptyObject
    /\ lines = << >>
    /\ pc = "idle"
    /\ run = 0
    /\ result = NoResult
    /\ firstResult = result
    /\ prevMap = EmptyObject
    /\ prevLines = << >>
    /\ origin = << >>

Init == GenInit /\ TokIdle /\ SimIdle /\ ValIdle /\ DecIdle /\ AllocIdle

\* the call: lines 139-146, up to the for loop
Call ==
    /\ pc \in {"idle", "done"}
    /\ run < 2
    /\ run' = run + 1
    /\ firstResult' = IF run = 1 THEN result ELSE firstResult
    /\ netToNodeMap' = makeEmitter(NewNodeMap)
    /\ lines' = << >>
    /\ i' = 0
    /\ prevMap' = makeEmitter(NewNodeMap)
    /\ prevLines' = << >>
    /\ origin' = << >>
    /\ pc' = "loop"
    /\ UNCHANGED <<components, result>>
    /\ UNCHANGED <<tokVars, simVars, valVars, decVars, allocVars>>

\* one iteration of the for loop
Iterate ==
    /\ pc = "loop"
    /\ i < Len(components)
    /\ LET st == ProcessComponent([map |-> netToNodeMap, lines |-> lines],
                                  components[i + 1])
       IN  /\ netToNodeMap' = st.map
           /\ lines' = st.lines
           /\ origin' = IF st.lines # lines THEN Append(origin, i + 1) ELSE origin
    /\ prevMap' = netToNodeMap
    /\ prevLines' = lines
    /\ i' = i + 1
    /\ UNCHANGED <<components, pc, run, result, firstResult>>
    /\ UNCHANGED <<tokVars, simVars, valVars, decVars, allocVars>>

\* after the loop: noise lines, models, control cards, return
Finish ==
    /\ pc = "loop"
    /\ i = Len(components)
    /\ result' = BuildResult(netToNodeMap, lines)
    /\ pc' = "done"
    /\ UNCHANGED <<components, i, netToNodeMap, lines, run, firstResult,
                   prevMap, prevLines, origin>>
    /\ UNCHANGED <<tokVars, simVars, valVars, decVars, allocVars>>

Next == Call \/ Iterate \/ Finish

Spec == Init /\ [][Next]_vars

----------------------------------------------------------------------------
(* Properties of generateSimpleSpiceNetlist *)

\* a net name that is a ground alias: 0, GND, GROUND, AGND or DGND in any
\* letter case, surrounding whitespace ignored
IsGroundAlias(net) ==
    toUpperCase(trim(net)) \in
        { <<"0">>, <<"G","N","D">>, <<"G","R","O","U","N","D">>,
          <<"A","G","N","D">>, <<"D","G","N","D">> }

\* the canonical name of a net: "0" for a ground alias, else the trimmed name
Canonical(net) == IF IsGroundAlias(net) THEN <<"0">> ELSE trim(net)

\* the pins a device line names, in the order of its node columns
RequiredPins(kind) ==
    CASE kind \in {"resistor", "capacitor", "diode", "led"} -> << <<"1">>, <<"2">> >>
      [] kind = "battery" -> << <<"2">>, <<"1">> >>
      [] kind = "transistor" -> << <<"C">>, <<"B">>, <<"E">> >>
      [] OTHER -> << >>

Returned == pc = "done"

\* C1: in the NodeMap returned, the key "0" maps to 0 and no other key maps
\* to 0; a pin wired to a ground alias is written as node 0 on its device
\* line and no ground alias other than "0" is a key of the map.
C1_GroundIsNodeZero ==
    /\ Returned =>
          LET m == result.netToNodeMap
          IN  /\ CountKey(m, <<"0">>) = 1
              /\ Get(m, <<"0">>) = 0
              /\ \A k \in DOMAIN m : m[k].val = 0 => m[k].key = <<"0">>
              /\ \A k \in DOMAIN m : IsGroundAlias(m[k].key) => m[k].key = <<"0">>
    /\ \A k \in DOMAIN lines :
          LET comp == components[origin[k]]
              req == RequiredPins(comp.kind)
          IN  \A j \in DOMAIN req :
                  IsGroundAlias(PinNet(comp, req[j])) => lines[k].nodes[j] = 0

C1_Witness ==
    /\ Returned
    /\ Len(result.netToNodeMap) >= 2
    /\ \E k \in DOMAIN lines :
          /\ PinNet(components[origin[k]], <<"2">>) = NetGnd
          /\ lines[k].nodes[2] = 0

NoJunction == \A j \in DOMAIN components : components[j].kind # "node"

\* C2: without junction components, every canonical net name wired to a
\* required pin of a component that emitted a device line has exactly one
\* entry in the final NodeMap, and no two entries of the map share an index.
C2_WiredNetsMappedOnceInjectively ==
    (Returned /\ NoJunction) =>
        LET m == result.netToNodeMap
        IN  /\ \A k \in DOMAIN lines :
                  LET comp == components[origin[k]]
                      req == RequiredPins(comp.kind)
                  IN  \A j \in DOMAIN req :
                          LET n == Canonical(PinNet(comp, req[j]))
                          IN  n # << >> => CountKey(m, n) = 1
            /\ \A a, b \in DOMAIN m : m[a].val = m[b].val => a = b

C2_Witness ==
    /\ Returned
    /\ NoJunction
    /\ Len(lines) = 2
    /\ Len(result.netToNodeMap) >= 4

\* C3: every node index written on a device line of the generated deck
\* (DNOISE and VNOISE included) is the value of an entry of the NodeMap
\* returned with that deck.
C3_DeckIndicesAreMapped ==
    Returned =>
        \A k \in DOMAIN result.netlist.devices :
            \A j \in DOMAIN result.netlist.devices[k].nodes :
                result.netlist.devices[k].nodes[j] \in Values(result.netToNodeMap)

C3_Witness ==
    /\ Returned
    /\ \E j \in DOMAIN components : components[j].kind = "node"
    /\ \E k \in DOMAIN result.netlist.devices :
          result.netlist.devices[k].dev = "DNOISE"
    /\ \E k \in DOMAIN result.netlist.devices :
          result.netlist.devices[k].dev \in {"D", "Q"}

\* display-only by kind or type: oscilloscope, label, measurement, multimeter
IsInstrument(comp) ==
    \/ comp.kind \in {"oscilloscope", "label", "measurement", "multimeter"}
    \/ comp.type \in {"oscilloscope", "label", "measurement", "multimeter"}

WiredTo(comp, n) ==
    \E k \in DOMAIN comp.pins : Canonical(comp.pins[k].val) = n

\* C4: processing a display-only component leaves the NodeMap and the device
\* lines unchanged, and a net wired only to display-only components is absent
\* from the final NodeMap.
C4_DisplayOnlyLeavesNoTrace ==
    /\ (i >= 1 /\ IsInstrument(components[i])) =>
          (netToNodeMap = prevMap /\ lines = prevLines)
    /\ Returned =>
          \A j \in DOMAIN components : \A k \in DOMAIN components[j].pins :
              LET n == Canonical(components[j].pins[k].val)
              IN  (/\ n \notin {<< >>, <<"0">>}
                   /\ \A c \in DOMAIN components :
                         WiredTo(components[c], n) => IsInstrument(components[c]))
                  => ~HasKey(result.netToNodeMap, n)

C4_Witness ==
    /\ Returned
    /\ Len(components) = 2
    /\ components[1].kind = "resistor" /\ ~IsInstrument(components[1])
    /\ Len(lines) = 1
    /\ components[2].kind = "resistor" /\ components[2].type = "multimeter"
    /\ WiredTo(components[2], NetX)
    /\ ~HasKey(result.netToNodeMap, NetX)

IsJunctionOfAB(comp) ==
    /\ comp.kind = "node"
    /\ {comp.pins[k].val : k \in DOMAIN comp.pins} = {NetA, NetB}

IsResistorOnA(comp) ==
    /\ comp.kind = "resistor"
    /\ ~IsInstrument(comp)
    /\ PinNet(comp, <<"1">>) # << >> /\ PinNet(comp, <<"2">>) # << >>
    /\ NetA \in {PinNet(comp, <<"1">>), PinNet(comp, <<"2">>)}

\* C5: for a list of a junction bridging nets "A" and "B" and a resistor
\* wired to net "A", in either order, the final NodeMap has entries for both
\* "A" and "B" and they hold the same node index.
C5_JunctionMergesNets ==
    (/\ Returned
     /\ Len(components) = 2
     /\ \/ IsJunctionOfAB(components[1]) /\ IsResistorOnA(components[2])
        \/ IsResistorOnA(components[1]) /\ IsJunctionOfAB(components[2]))
    => /\ HasKey(result.netToNodeMap, NetA)
       /\ HasKey(result.netToNodeMap, NetB)
       /\ Get(result.netToNodeMap, NetA) = Get(result.netToNodeMap, NetB)

\* C6: two calls on the same component list return an identical NodeMap and
\* an identical deck, and the second call starts from a map that holds the
\* ground entry alone.
C6_RerunIsIdentical ==
    /\ (Returned /\ run = 2) => result = firstResult
    /\ (run = 2 /\ pc = "loop" /\ i = 0) =>
          netToNodeMap = << [key |-> <<"0">>, val |-> 0] >>

C6_Witness ==
    /\ Returned
    /\ run = 2
    /\ Len(firstResult.netToNodeMap) >= 3
    /\ Len(firstResult.netlist.devices) >= 2
    /\ result = firstResult

----------------------------------------------------------------------------
(* tokenizeConcatenatedLine *)

\* one match of /[+-]?(?:\d+\.\d+|\d+\.?\d*)(?:e[+-]?\d+)?/i at position p of
\* s: [len, num], len = 0 when the pattern does not match there
NumberAt(s, p) ==
    LET sg   == IF CharAt(s, p) \in {"+", "-"} THEN 1 ELSE 0
        a    == DigitRun(s, p + sg)
        dot  == CharAt(s, p + sg + a) = "."
        b    == IF dot THEN DigitRun(s, p + sg + a + 1) ELSE 0
        mlen == IF dot THEN a + 1 + b ELSE a
        mant == DigitsVal(s, p + sg, a) * Pow10(b)
                    + (IF dot THEN DigitsVal(s, p + sg + a + 1, b) ELSE 0)
        ex   == ExponentAt(s, p + sg + mlen)
        neg  == CharAt(s, p) = "-"
    IN  IF a = 0 THEN [len |-> 0, num |-> NoNumber]
        ELSE [len |-> sg + mlen + ex.len,
              num |-> Dec(IF neg THEN 0 - mant ELSE mant, ex.exp - b)]

\* rest.match(numRe).map(Number): the matches from position p on, left to right
RECURSIVE MatchAll(_, _)
MatchAll(s, p) ==
    IF p > Len(s) THEN << >>
    ELSE LET m == NumberAt(s, p)
         IN  IF m.len = 0 THEN MatchAll(s, p + 1)
             ELSE <<m.num>> \o MatchAll(s, p + m.len)

NullTokens == [index |-> -2, values |-> << >>]

tokenizeConcatenatedLine(line) ==
    LET s == trim(line)
        a == DigitRun(s, 1)                 \* ^(\d+)(.*)$
    IN  IF s = << >> THEN NullTokens
        ELSE IF a = 0 THEN NullTokens
        ELSE [index |-> DigitsVal(s, 1, a),
              values |-> MatchAll(SubSeq(s, a + 1, Len(s)), 1)]

----------------------------------------------------------------------------
(* Data rows of the engine's "Index time v(1) ..." table *)

Lit4999830em02 == <<"4",".","9","9","9","8","3","0","e","-","0","2">>
Lit5000000ep00 == <<"5",".","0","0","0","0","0","0","e","+","0","0">>
Lit1250000ep01 == <<"1",".","2","5","0","0","0","0","e","+","0","1">>
LitNeg33 == <<"-","3",".","3","0","0","0","0","0","e","+","0","0">>

NumberTexts == {Lit4999830em02, Lit5000000ep00, Lit1250000ep01, LitNeg33}
IndexTexts == { <<"0">>, <<"1","2">>, <<"4","9","9","9","9","9">> }
Separators == { << >>, <<"\t">> }

RECURSIVE Join(_, _)
Join(texts, sep) ==
    IF texts = << >> THEN << >>
    ELSE sep \o Head(texts) \o Join(Tail(texts), sep)

\* the row as the engine prints it
RowText(index, nums, sep) == index \o Join(nums, sep)

TokInit ==
    /\ rowIndex \in IndexTexts
    /\ rowSep \in Separators
    /\ rowNums \in UNION {[1..n -> NumberTexts] : n \in 1..MaxNums}
    /\ parsed = NotParsed

GenIdle ==
    /\ components = << >>
    /\ i = 0
    /\ netToNodeMap = EmptyObject
    /\ lines = << >>
    /\ pc = "idle"
    /\ run = 0
    /\ result = NoResult
    /\ firstResult = result
    /\ prevMap = EmptyObject
    /\ prevLines = << >>
    /\ origin = << >>

\* parseCustomTransientFormat, line 563: the tokenizer applied to one row
Tokenize ==
    /\ parsed = NotParsed
    /\ parsed' = tokenizeConcatenatedLine(RowText(rowIndex, rowNums, rowSep))
    /\ UNCHANGED <<rowIndex, rowSep, rowNums>>
    /\ UNCHANGED <<genVars, simVars, valVars, decVars, allocVars>>

InitTok == TokInit /\ GenIdle /\ SimIdle /\ ValIdle /\ DecIdle /\ AllocIdle

SpecTok == InitTok /\ [][Tokenize]_vars

----------------------------------------------------------------------------
(* Properties of tokenizeConcatenatedLine *)

\* the value of a number written d.dddddde+dd or -d.dddddde+dd
SciValue(t) ==
    LET o == IF t[1] = "-" THEN 1 ELSE 0
        mant == DigitsVal(t, 1 + o, 1) * 1000000 + DigitsVal(t, 3 + o, 6)
        ex == DigitsVal(t, 11 + o, 2)
    IN  Dec(IF o = 1 THEN 0 - mant ELSE mant,
            (IF t[10 + o] = "-" THEN 0 - ex ELSE ex) - 6)

ExpectedTokens ==
    [index |-> DigitsVal(rowIndex, 1, Len(rowIndex)),
     values |-> [k \in DOMAIN rowNums |-> SciValue(rowNums[k])]]

IsSpecRow ==
    /\ rowIndex = <<"4","9","9","9","9","9">>
    /\ rowSep = << >>
    /\ rowNums = <<Lit4999830em02, Lit4999830em02, Lit5000000ep00>>

\* C8: the tokenizer splits 4999994.999830e-024.999830e-025.000000e+00 into
\* index 499999 and the values 4.999830e-02, 4.999830e-02, 5.000000e+00, and
\* in general returns the index and the numbers of a delimiter-free row of
\* d.dddddde+-dd numbers in order.
C8_SplitsDelimiterFreeRow ==
    /\ (parsed # NotParsed /\ IsSpecRow) =>
          /\ parsed.index = 499999
          /\ parsed.values = <<Dec(4999830, -8), Dec(4999830, -8), Dec(5, 0)>>
    /\ (parsed # NotParsed /\ rowSep = << >>) => parsed = ExpectedTokens

\* the same for rows whose columns are separated by a tab
C8_SplitsDelimitedRow ==
    (parsed # NotParsed /\ rowSep # << >>) => parsed = ExpectedTokens

----------------------------------------------------------------------------
(* Text of a device line: `${letter}${ref} ${node} ... ${value}` *)

RECURSIVE NatToText(_)
NatToText(n) ==
    IF n < 10 THEN <<Digits[n + 1]>>
    ELSE NatToText(n \div 10) \o <<Digits[(n % 10) + 1]>>

RECURSIVE Zeros(_)
Zeros(n) == IF n <= 0 THEN << >> ELSE <<"0">> \o Zeros(n - 1)

Abs(x) == IF x < 0 THEN 0 - x ELSE x

\* Number.prototype.toString of m * 10^e: with k the number of digits of m
\* and n = k + e, plain digits for k <= n <= 21, a decimal point inside the
\* digits for 0 < n < k, "0.00ddd" for -6 < n <= 0, else exponent notation
NumToStr(d) ==
    LET ds == NatToText(Abs(d.m))
        k  == Len(ds)
        n  == k + d.e
        sign == IF d.m < 0 THEN <<"-">> ELSE << >>
        expo == (IF n - 1 < 0 THEN <<"e","-">> ELSE <<"e","+">>) \o NatToText(Abs(n - 1))
    IN  IF d.m = 0 THEN <<"0">>
        ELSE IF k <= n /\ n <= 21 THEN sign \o ds \o Zeros(n - k)
        ELSE IF 0 < n /\ n <= 21
             THEN sign \o SubSeq(ds, 1, n) \o <<".">> \o SubSeq(ds, n + 1, k)
        ELSE IF -6 < n /\ n <= 0 THEN sign \o <<"0",".">> \o Zeros(0 - n) \o ds
        ELSE IF k = 1 THEN sign \o ds \o expo
        ELSE sign \o <<ds[1], ".">> \o SubSeq(ds, 2, k) \o expo

RECURSIVE JoinNodes(_)
JoinNodes(nodes) ==
    IF nodes = << >> THEN << >>
    ELSE <<" ">> \o NatToText(Head(nodes)) \o JoinNodes(Tail(nodes))

\* the text of a line pushed by res, cap, diode, vsource or npn
LineText(line) ==
    CASE line.dev = "V" ->
            <<"V">> \o line.ref \o JoinNodes(line.nodes) \o <<" ","D","C"," ">>
                \o NumToStr(line.value)
      [] line.dev \in {"R", "C"} ->
            <<line.dev>> \o line.ref \o JoinNodes(line.nodes) \o <<" ">>
                \o NumToStr(line.value)
      [] line.dev \in {"D", "Q"} ->
            <<line.dev>> \o line.ref \o JoinNodes(line.nodes) \o <<" ">> \o line.model
      [] line.dev = "DNOISE" ->
            <<"D","N","O","I","S","E">> \o JoinNodes(line.nodes) \o <<" ">> \o line.model
      [] OTHER ->
            <<"V","N","O","I","S","E">> \o JoinNodes(line.nodes)
                \o <<" ","S","I","N","(","0"," ","0",".","0","0","1"," ","1","0","0","0",")">>

----------------------------------------------------------------------------
(* performBasicCircuitAnalysis *)

WordChars == Range(LowerLetters) \cup Range(UpperLetters) \cup Range(Digits) \cup {"_"}
SpaceChars == {" ", "\t", "\n", "\r"}
NumChars == Range(Digits) \cup {"."}

\* number of characters of s from position p on that are in C
RECURSIVE Run(_, _, _)
Run(s, p, C) ==
    IF p <= Len(s) /\ s[p] \in C THEN 1 + Run(s, p + 1, C) ELSE 0

Infinity == [m |-> 1, e |-> 9999]
NotANumber == [m |-> 0, e |-> 9999]

\* parseFloat of a text of digits and dots: the value of the longest prefix
\* that is a decimal literal, NaN when there is none
ParseFloatDigits(s) ==
    LET a == DigitRun(s, 1)
        b == IF CharAt(s, a + 1) = "." THEN DigitRun(s, a + 2) ELSE 0
    IN  IF a = 0 /\ b = 0 THEN [num |-> NotANumber]
        ELSE [num |-> Dec(DigitsVal(s, 1, a) * Pow10(b) + DigitsVal(s, a + 2, b), 0 - b)]

\* ^<letter>\w+\s+(\d+)\s+(\d+)\s+ at the start of s: [ok, n1, n2, next],
\* p1 and p2 being where the two node numbers start
MatchTwoNodesAt(s, letter, p1, p2) ==
    IF /\ CharAt(s, 1) = letter
       /\ Run(s, 2, WordChars) > 0
       /\ IsSpace(CharAt(s, p1 - 1))
       /\ DigitRun(s, p1) > 0
       /\ IsSpace(CharAt(s, p2 - 1))
       /\ DigitRun(s, p2) > 0
       /\ IsSpace(CharAt(s, p2 + DigitRun(s, p2)))
    THEN [ok |-> TRUE, n1 |-> DigitsVal(s, p1, DigitRun(s, p1)),
          n2 |-> DigitsVal(s, p2, DigitRun(s, p2)),
          next |-> p2 + DigitRun(s, p2) + Run(s, p2 + DigitRun(s, p2), SpaceChars)]
    ELSE [ok |-> FALSE, n1 |-> 0, n2 |-> 0, next |-> 0]

\* where the second number starts, the first one starting at p1
SecondNodeAt(s, p1) == p1 + DigitRun(s, p1) + Run(s, p1 + DigitRun(s, p1), SpaceChars)

\* where the first number starts
FirstNodeAt(s) == 2 + Run(s, 2, WordChars) + Run(s, 2 + Run(s, 2, WordChars), SpaceChars)

MatchTwoNodes(s, letter) ==
    MatchTwoNodesAt(s, letter, FirstNodeAt(s), SecondNodeAt(s, FirstNodeAt(s)))

\* DC\s+([\d.]+) at position p of s, after the head h
VoltageSourceValue(s, h, v) ==
    IF h.ok /\ CharAt(s, h.next) = "D" /\ CharAt(s, h.next + 1) = "C"
       /\ v > h.next + 2 /\ Run(s, v, NumChars) > 0
    THEN [ok |-> TRUE,
          value |-> ParseFloatDigits(SubSeq(s, v, v + Run(s, v, NumChars) - 1)).num,
          pos_node |-> h.n1, neg_node |-> h.n2]
    ELSE [ok |-> FALSE, value |-> NoNumber, pos_node |-> 0, neg_node |-> 0]

VoltageSourceHead(s, h) ==
    VoltageSourceValue(s, h, h.next + 2 + Run(s, h.next + 2, SpaceChars))

VoltageSourceIn(s) == VoltageSourceHead(s, MatchTwoNodes(s, "V"))

\* trimmed.match(/^V\w+\s+(\d+)\s+(\d+)\s+DC\s+([\d.]+)/): [ok, value, pos_node, neg_node]
MatchVoltageSource(text) == VoltageSourceIn(trim(text))

\* ([\d.]+k?) at position h.next of s, v characters of [\d.]
ResistorValue(s, h, v) ==
    IF h.ok /\ v > 0
    THEN [ok |-> TRUE,
          value |-> IF CharAt(s, h.next + v) = "k"
                    THEN Scale(ParseFloatDigits(SubSeq(s, h.next, h.next + v - 1)).num, 3)
                    ELSE ParseFloatDigits(SubSeq(s, h.next, h.next + v - 1)).num,
          node1 |-> h.n1, node2 |-> h.n2]
    ELSE [ok |-> FALSE, value |-> NoNumber, node1 |-> 0, node2 |-> 0]

ResistorHead(s, h) == ResistorValue(s, h, Run(s, h.next, NumChars))

ResistorIn(s) == ResistorHead(s, MatchTwoNodes(s, "R"))

\* trimmed.match(/^R\w+\s+(\d+)\s+(\d+)\s+([\d.]+k?)/): [ok, value, node1, node2]
MatchResistor(text) == ResistorIn(trim(text))

\* the index of the last device line of the deck that Match accepts, 0 if none
LastMatching(S) == IF S = {} THEN 0 ELSE Max(S)

\* the match of the last device line of the deck that Match accepts, or NoMatch
LastMatch(devices, Match(_), NoMatch) ==
    IF \E k \in DOMAIN devices : Match(LineText(devices[k])).ok
    THEN Match(LineText(devices[
             LastMatching({k \in DOMAIN devices : Match(LineText(devices[k])).ok})]))
    ELSE NoMatch

\* a / b: exact when the quotient is a decimal of at most 6 more digits,
\* else cut after 6 digits
Divide(a, b) ==
    IF a = NotANumber \/ b = NotANumber THEN NotANumber
    ELSE IF b.m = 0 THEN (IF a.m = 0 THEN NotANumber ELSE Infinity)
    ELSE LET ks == {k \in 0..6 : (a.m * Pow10(k)) % b.m = 0}
             k  == IF ks = {} THEN 6 ELSE CHOOSE k \in ks : \A j \in ks : k <= j
         IN  Dec((a.m * Pow10(k)) \div b.m, a.e - b.e - k)

VKey(node) == <<"v","_">> \o NatToText(node)
IVV1 == <<"i","_","v","v","1">>
VV1 == <<"v","v","1">>

NoSeries == [kind |-> "none"]

\* transientData built by the fallback: its vectors are kept in full
FallbackSeries(voltages, currents) ==
    [kind |-> "fallback", time |-> <<Dec(0, 0), Dec(1, -3)>>,
     voltages |-> voltages, currents |-> currents]

\* lines 405-421 of performBasicCircuitAnalysis, for one voltage source,
\* one resistor and current = voltage / resistance
Analysis(voltage, current, pos, neg) ==
    [operatingPoint |->
        Set(Set(Set(EmptyObject, VKey(pos), voltage), VKey(neg), Dec(0, 0)),
            IVV1, current),
     transientData |->
        FallbackSeries(
            Set(Set(EmptyObject, NatToText(pos), <<voltage, voltage>>),
                NatToText(neg), <<Dec(0, 0), Dec(0, 0)>>),
            Set(EmptyObject, VV1, <<current, current>>))]

\* lines 404-431 of performBasicCircuitAnalysis
Analyse(voltage_source, resistor) ==
    IF voltage_source.ok /\ resistor.ok
    THEN Analysis(voltage_source.value, Divide(voltage_source.value, resistor.value),
                  voltage_source.pos_node, voltage_source.neg_node)
    ELSE [operatingPoint |-> EmptyObject,
          transientData |-> FallbackSeries(EmptyObject, EmptyObject)]

\* performBasicCircuitAnalysis() on this.lastNetlist = last (NoNetlist when null):
\* [operatingPoint, transientData]
performBasicCircuitAnalysis(last) ==
    IF last = NoNetlist
    THEN [operatingPoint |-> EmptyObject,
          transientData |-> [kind |-> "fallback", time |-> << >>,
                             voltages |-> EmptyObject, currents |-> EmptyObject]]
    ELSE Analyse(LastMatch(last.netlist.devices, MatchVoltageSource, [ok |-> FALSE]),
                 LastMatch(last.netlist.devices, MatchResistor, [ok |-> FALSE]))

----------------------------------------------------------------------------
(* parseNgSpiceOutput: the engine's output is the sequence of its lines,   *)
(* output.split('\n')                                                      *)

\* the text lit (given in lower case when fold) stands at position p of s
LitAt(s, p, lit, fold) ==
    /\ p >= 1
    /\ p + Len(lit) - 1 <= Len(s)
    /\ \A k \in DOMAIN lit :
          (IF fold THEN ToLowerChar(s[p + k - 1]) ELSE s[p + k - 1]) = lit[k]

\* number of characters of s from position p on that are not in C
RECURSIVE RunNot(_, _, _)
RunNot(s, p, C) ==
    IF p <= Len(s) /\ s[p] \notin C THEN 1 + RunNot(s, p + 1, C) ELSE 0

\* parseFloat: the value of the longest prefix that is a decimal literal
ParseFloat(s) ==
    LET sg   == IF CharAt(s, 1) \in {"+", "-"} THEN 1 ELSE 0
        a    == DigitRun(s, 1 + sg)
        dot  == CharAt(s, 1 + sg + a) = "."
        b    == IF dot THEN DigitRun(s, 2 + sg + a) ELSE 0
        mlen == IF dot THEN a + 1 + b ELSE a
        ex   == ExponentAt(s, 1 + sg + mlen)
        mant == DigitsVal(s, 1 + sg, a) * Pow10(b)
                    + (IF dot THEN DigitsVal(s, 2 + sg + a, b) ELSE 0)
    IN  IF a + b = 0 THEN NotANumber
        ELSE Dec(IF CharAt(s, 1) = "-" THEN 0 - mant ELSE mant, ex.exp - b)

\* [-\d.e+-], with E as well under the i flag
ValueChars(fold) ==
    Range(Digits) \cup {"-", ".", "e", "+"} \cup (IF fold THEN {"E"} ELSE {})

NoCapture == [ok |-> FALSE, name |-> << >>, value |-> NotANumber]

\* <letter>\(([^)]+)\)\s*=\s*([-\d.e+-]+) (eq) or <letter>\(([^)]+)\)\s+([-\d.e+-]+)
\* at position p of s
NamedValueAt(s, p, letters, eq, fold) ==
    LET n  == RunNot(s, p + 2, {")"})
        q  == p + 2 + n + 1                        \* after the ")"
        s1 == Run(s, q, SpaceChars)
        s2 == IF eq THEN Run(s, q + s1 + 1, SpaceChars) ELSE 0
        v  == IF eq THEN q + s1 + 1 + s2 ELSE q + s1
        w  == Run(s, v, ValueChars(fold))
    IN  IF /\ CharAt(s, p) \in letters
           /\ CharAt(s, p + 1) = "("
           /\ n > 0
           /\ CharAt(s, q - 1) = ")"
           /\ (IF eq THEN CharAt(s, q + s1) = "=" ELSE s1 > 0)
           /\ w > 0
        THEN [ok |-> TRUE, name |-> SubSeq(s, p + 2, p + 1 + n),
              value |-> ParseFloat(SubSeq(s, v, v + w - 1))]
        ELSE NoCapture

\* ([^#\s]+)#branch\s+([-\d.e+-]+) at position p of s
BranchAt(s, p) ==
    LET n  == RunNot(s, p, SpaceChars \cup {"#"})
        q  == p + n + 7                            \* after "#branch"
        s1 == Run(s, q, SpaceChars)
        w  == Run(s, q + s1, ValueChars(FALSE))
    IN  IF /\ n > 0
           /\ LitAt(s, p + n, <<"#","b","r","a","n","c","h">>, FALSE)
           /\ s1 > 0
           /\ w > 0
        THEN [ok |-> TRUE, name |-> SubSeq(s, p, p + n - 1),
              value |-> ParseFloat(SubSeq(s, q + s1, q + s1 + w - 1))]
        ELSE NoCapture

\* line.match(re): the leftmost match of the pattern At(_) in s
FirstMatch(s, At(_)) ==
    IF \E p \in 1..Len(s) : At(p).ok
    THEN At(Min({p \in 1..Len(s) : At(p).ok}))
    ELSE NoCapture

VPrefix == <<"v","_">>
IPrefix == <<"i","_">>

\* the four patterns of the for loop of parseNgSpiceOutput on one line
VoltageEq(line) == FirstMatch(line, LAMBDA p : NamedValueAt(line, p, {"v", "V"}, TRUE, TRUE))
VoltageCol(line) == FirstMatch(line, LAMBDA p : NamedValueAt(line, p, {"V"}, FALSE, FALSE))
CurrentEq(line) == FirstMatch(line, LAMBDA p : NamedValueAt(line, p, {"i", "I"}, TRUE, TRUE))
BranchCol(line) == FirstMatch(line, LAMBDA p : BranchAt(line, p))

\* operatingPoint[`${prefix}${m.name}`] = m.value when m is a match
Assigned(operatingPoint, prefix, m, otherwise) ==
    IF m.ok THEN Set(operatingPoint, prefix \o m.name, m.value) ELSE otherwise

\* the body of the for loop of parseNgSpiceOutput on one line
OperatingPointLine(operatingPoint, line) ==
    Assigned(operatingPoint, VPrefix, VoltageEq(line),
      Assigned(operatingPoint, VPrefix, VoltageCol(line),
        Assigned(operatingPoint, IPrefix, CurrentEq(line),
          Assigned(operatingPoint, IPrefix, BranchCol(line), operatingPoint))))

\* the for loop of parseNgSpiceOutput over the lines lo..hi of the output,
\* the lines lo..mid done first
RECURSIVE OperatingPointOf(_, _, _, _)
OperatingPointHalves(left, output, mid, hi) ==
    IF left = left THEN OperatingPointOf(left, output, mid + 1, hi) ELSE left

OperatingPointOf(operatingPoint, output, lo, hi) ==
    IF lo > hi THEN operatingPoint
    ELSE IF lo = hi THEN OperatingPointLine(operatingPoint, output[lo])
    ELSE OperatingPointHalves(
            OperatingPointOf(operatingPoint, output, lo, (lo + hi) \div 2),
            output, (lo + hi) \div 2, hi)

----------------------------------------------------------------------------
(* parseCustomTransientFormat *)

AllIn(s, C) == \A k \in DOMAIN s : s[k] \in C

\* if (pointCount > 100): the number of points a custom table must exceed
CustomMinPoints == 100

NoTransient == [kind |-> "null"]

\* a series built from the engine's output (kind is not a field of the
\* program's object: it records which function built the series)
ParsedSeries(time, voltages) ==
    [kind |-> "parsed", time |-> time, voltages |-> voltages, currents |-> EmptyObject]

\* voltages[String(k)] = [] for the k of from..to that have no array yet
RECURSIVE InitArrays(_, _, _)
InitArrays(voltages, from, to) ==
    IF from > to THEN voltages
    ELSE InitArrays(IF HasKey(voltages, NatToText(from)) THEN voltages
                    ELSE Set(voltages, NatToText(from), << >>),
                    from + 1, to)

\* voltages[String(k)].push(...) for k = 1..maxNodeCount: the k-th value of
\* the row, or the 0 that pads a shorter row
RECURSIVE PushRow(_, _, _, _)
PushRow(voltages, nodeVoltages, k, maxNodeCount) ==
    IF k > Len(nodeVoltages) /\ k > maxNodeCount THEN voltages
    ELSE LET nodeId == NatToText(k)
             old == IF HasKey(voltages, nodeId) THEN Get(voltages, nodeId) ELSE << >>
             v == IF k <= Len(nodeVoltages) THEN nodeVoltages[k] ELSE Dec(0, 0)
         IN  PushRow(Set(voltages, nodeId, Append(old, v)), nodeVoltages, k + 1,
                     maxNodeCount)

\* lines 566-598 of parseCustomTransientFormat: a row of at least two values
\* is one point
CustomPoint(acc, values, maxNodeCount) ==
    [time |-> Append(acc.time, Head(values)),
     voltages |-> PushRow(IF Len(values) - 1 > acc.maxNodeCount
                          THEN InitArrays(acc.voltages, 1, Len(values) - 1)
                          ELSE acc.voltages,
                          Tail(values), 1, maxNodeCount),
     pointCount |-> acc.pointCount + 1,
     maxNodeCount |-> maxNodeCount]

\* lines 563-564
CustomTokens(acc, tokens) ==
    IF tokens = NullTokens \/ Len(tokens.values) < 2 THEN acc
    ELSE CustomPoint(acc, tokens.values,
                     IF Len(tokens.values) - 1 > acc.maxNodeCount
                     THEN Len(tokens.values) - 1 ELSE acc.maxNodeCount)

\* lines 559-563
CustomTrimmed(acc, trimmed) ==
    IF trimmed = << >> \/ LitAt(trimmed, 1, <<"I","n","d","e","x">>, FALSE)
    THEN acc
    ELSE CustomTokens(acc, tokenizeConcatenatedLine(trimmed))

\* the body of the for loop of parseCustomTransientFormat on one line
CustomLine(acc, line) == CustomTrimmed(acc, trim(line))

\* the for loop of parseCustomTransientFormat over the lines lo..hi, the
\* lines lo..mid done first
RECURSIVE CustomLines(_, _, _, _)
CustomHalves(left, dataLines, mid, hi) ==
    IF left = left THEN CustomLines(left, dataLines, mid + 1, hi) ELSE left

CustomLines(acc, dataLines, lo, hi) ==
    IF lo > hi THEN acc
    ELSE IF lo = hi THEN CustomLine(acc, dataLines[lo])
    ELSE CustomHalves(CustomLines(acc, dataLines, lo, (lo + hi) \div 2),
                      dataLines, (lo + hi) \div 2, hi)

\* lines 616-625
CustomSeries(acc) ==
    IF acc.pointCount > CustomMinPoints
    THEN ParsedSeries(acc.time, acc.voltages)
    ELSE NoTransient

parseCustomTransientFormat(dataLines) ==
    CustomSeries(CustomLines([time |-> << >>, voltages |-> EmptyObject,
                              pointCount |-> 0, maxNodeCount |-> 0],
                             dataLines, 1, Len(dataLines)))

----------------------------------------------------------------------------
(* parseTransientData *)

HeaderChars == SpaceChars \cup WordChars \cup {"(", ")"}

\* Index\s+time\s+v\(\d+\)[\s\w\(\)]* from position p of line to its end
HeaderAt(line, p) ==
    LET s1 == Run(line, p + 5, SpaceChars)
        t  == p + 5 + s1
        s2 == Run(line, t + 4, SpaceChars)
        v  == t + 4 + s2
        d  == DigitRun(line, v + 2)
    IN  /\ LitAt(line, p, <<"i","n","d","e","x">>, TRUE)
        /\ s1 > 0
        /\ LitAt(line, t, <<"t","i","m","e">>, TRUE)
        /\ s2 > 0
        /\ LitAt(line, v, <<"v","(">>, TRUE)
        /\ d > 0
        /\ CharAt(line, v + 2 + d) = ")"
        /\ AllIn(SubSeq(line, v + 3 + d, Len(line)), HeaderChars)

IsDashes(line) == line # << >> /\ AllIn(line, {"-"})

\* the smallest element of a set of line numbers, 0 if the set is empty
First(S) == IF S = {} THEN 0 ELSE Min(S)

\* the line of dashes that closes the header starting in line h, 0 if none
DashesAfter(output, h) ==
    First({d \in (h + 1)..(Len(output) - 1) :
              /\ IsDashes(output[d])
              /\ \A k \in (h + 1)..(d - 1) : AllIn(output[k], HeaderChars)})

\* the first empty line after line r, 0 if none: where (?:\n\n|\n$) matches
BlankAfter(output, r) == First({j \in (r + 1)..Len(output) : output[j] = << >>})

\* the lines from..(to - 1) of the output as a match, no match when to = 0
Block(output, from, to) ==
    IF to = 0 THEN [ok |-> FALSE, data |-> << >>]
    ELSE [ok |-> TRUE, data |-> SubSeq(output, from, to - 1)]

\* a header starts in line h, its line of dashes is line d and the data
\* end before an empty line
IsCustomHeader(output, h, d) ==
    /\ \E p \in 1..Len(output[h]) : HeaderAt(output[h], p)
    /\ d # 0
    /\ BlankAfter(output, d + 1) # 0

\* the data after the line of dashes d
CustomData(output, d) == Block(output, d + 1, BlankAfter(output, d + 1))

\* the data of the table whose header starts in line h, h = 0 when no header
\* matches
CustomBlock(output, h) ==
    IF h = 0 THEN Block(output, 0, 0) ELSE CustomData(output, DashesAfter(output, h))

\* output.match(/Index\s+time\s+v\(\d+\)[\s\w\(\)]*\n-+\n([\s\S]*?)(?:\n\n|\n$)/i):
\* [ok, data], data the lines of group 1
CustomFormatMatch(output) ==
    CustomBlock(output,
        First({h \in DOMAIN output : IsCustomHeader(output, h, DashesAfter(output, h))}))

\* /plotname:\s*Transient Analysis/i.test(output)
HasTransientPlot(output) ==
    \E k \in DOMAIN output : \E p \in 1..Len(output[k]) :
        /\ LitAt(output[k], p, <<"p","l","o","t","n","a","m","e",":">>, TRUE)
        /\ LitAt(output[k], p + 9 + Run(output[k], p + 9, SpaceChars),
                 <<"t","r","a","n","s","i","e","n","t"," ",
                   "a","n","a","l","y","s","i","s">>, TRUE)

ValuesLit == <<"v","a","l","u","e","s",":">>
VariablesLit == <<"v","a","r","i","a","b","l","e","s",":">>

\* the label lit followed by \s*\n in line k
LabelLine(output, k, lit) ==
    /\ k < Len(output)
    /\ \E p \in 1..Len(output[k]) :
          /\ LitAt(output[k], p, lit, TRUE)
          /\ AllIn(SubSeq(output[k], p + Len(lit), Len(output[k])), SpaceChars)

\* the first line after line v + 1 that starts with Values:, 0 if none
ValuesAfter(output, v) ==
    First({u \in (v + 2)..Len(output) : LitAt(output[u], 1, ValuesLit, TRUE)})

\* the lines between the label in line v and the next Values: line
VarsData(output, v) ==
    IF v = 0 THEN Block(output, 0, 0) ELSE Block(output, v + 1, ValuesAfter(output, v))

\* output.match(/Variables:\s*\n([\s\S]*?)\nValues:/i): [ok, data]
VarsBlockMatch(output) ==
    VarsData(output,
        First({v \in DOMAIN output :
                  LabelLine(output, v, VariablesLit) /\ ValuesAfter(output, v) # 0}))

\* the lines group 1 can start at after the label in line w: the greedy \s*
\* runs over the lines of white space that follow the label
RowStarts(output, w) ==
    {r \in (w + 1)..Len(output) :
        /\ \A k \in (w + 1)..(r - 1) : AllIn(output[k], SpaceChars)
        /\ BlankAfter(output, r) # 0}

\* the rows from line r on, r = 0 when nothing matches
ValuesData(output, r) ==
    IF r = 0 THEN Block(output, 0, 0) ELSE Block(output, r, BlankAfter(output, r))

\* the last line group 1 can start at, after the label in line w
LastRowStart(output, w) ==
    IF w = 0 THEN 0 ELSE Max(RowStarts(output, w))

\* output.match(/Values:\s*\n([\s\S]*?)(?:\n\n|\n$)/i): [ok, data]
ValuesBlockMatch(output) ==
    ValuesData(output,
        LastRowStart(output,
            First({w \in DOMAIN output :
                      LabelLine(output, w, ValuesLit) /\ RowStarts(output, w) # {}})))

\* s.split(/\s+/) of a trimmed text
RECURSIVE Words(_)
Words(s) ==
    LET n == RunNot(s, 1, SpaceChars)
        g == Run(s, n + 1, SpaceChars)
    IN  IF n = Len(s) THEN <<s>>
        ELSE <<SubSeq(s, 1, n)>> \o Words(SubSeq(s, n + g + 1, Len(s)))

\* Number(s) of a trimmed text, m being the decimal literal at its start
NumberOfLiteral(s, m) ==
    IF s = << >> THEN [finite |-> TRUE, num |-> Dec(0, 0)]
    ELSE IF m.len = Len(s) THEN [finite |-> TRUE, num |-> m.num]
    ELSE [finite |-> FALSE, num |-> NotANumber]

NumberOfTrimmed(s) == NumberOfLiteral(s, NumberAt(s, 1))

\* Number(text) of a column: [finite, num]; the empty text is 0, a decimal
\* literal is its value, any other text is NaN
ToNumber(text) == NumberOfTrimmed(trim(text))

\* line.match(/^\d+\s+([^\s]+)\s+/) on a trimmed line of the Variables block,
\* the name starting at position p: [ok, name]
VariableNameAt(line, p) ==
    IF /\ DigitRun(line, 1) > 0
       /\ IsSpace(CharAt(line, p - 1))
       /\ RunNot(line, p, SpaceChars) > 0
       /\ IsSpace(CharAt(line, p + RunNot(line, p, SpaceChars)))
    THEN [ok |-> TRUE,
          name |-> toLowerCase(SubSeq(line, p, p + RunNot(line, p, SpaceChars) - 1))]
    ELSE [ok |-> FALSE, name |-> << >>]

VariableLine(line) ==
    VariableNameAt(line, DigitRun(line, 1)
                            + Run(line, DigitRun(line, 1) + 1, SpaceChars) + 1)

\* the names of the lines that match
NamesOf(kept) == [k \in DOMAIN kept |-> VariableLine(kept[k]).name]

\* indexToName: the names of the trimmed lines of the block that match
IndexToName(varLines) ==
    NamesOf(SelectSeq([k \in DOMAIN varLines |-> trim(varLines[k])],
                      LAMBDA l : l # << >> /\ VariableLine(l).ok))

\* name.match(/^v\((\d+)\)$/)
IsVoltageName(name) ==
    /\ Len(name) >= 4
    /\ name[1] = "v" /\ name[2] = "(" /\ name[Len(name)] = ")"
    /\ DigitRun(name, 3) = Len(name) - 3

\* voltageIndices: node -> position in indexToName
RECURSIVE VoltageIndices(_, _, _)
VoltageIndices(acc, indexToName, k) ==
    IF k > Len(indexToName) THEN acc
    ELSE VoltageIndices(
            IF IsVoltageName(indexToName[k])
            THEN Set(acc, SubSeq(indexToName[k], 3, Len(indexToName[k]) - 1), k)
            ELSE acc,
            indexToName, k + 1)

\* Number.isFinite(voltage) ? voltage : 0
FiniteOrZero(v) == IF v.finite THEN v.num ELSE Dec(0, 0)

\* lines 499-508: the columns of a row of the right width, t its time
ValuesPoint(acc, cols, t, nodes) ==
    IF ~t.finite THEN acc
    ELSE [time |-> Append(acc.time, t.num),
          voltages |-> [k \in DOMAIN acc.voltages |->
                           [key |-> acc.voltages[k].key,
                            val |-> Append(acc.voltages[k].val,
                                           FiniteOrZero(ToNumber(cols[nodes[k].val])))]]]

\* lines 496-497
ValuesCols(acc, cols, width, timeIdx, nodes) ==
    IF Len(cols) # width THEN acc
    ELSE ValuesPoint(acc, cols, ToNumber(cols[timeIdx]), nodes)

\* the body of the for loop over the rows of the Values block
ValuesRow(acc, row, width, timeIdx, nodes) ==
    ValuesCols(acc, Words(trim(row)), width, timeIdx, nodes)

\* the for loop over the rows lo..hi of the Values block, the rows lo..mid
\* done first
RECURSIVE ValuesRows(_, _, _, _, _, _, _)
ValuesHalves(left, rows, mid, hi, width, timeIdx, nodes) ==
    IF left = left THEN ValuesRows(left, rows, mid + 1, hi, width, timeIdx, nodes)
    ELSE left

ValuesRows(acc, rows, lo, hi, width, timeIdx, nodes) ==
    IF lo > hi THEN acc
    ELSE IF lo = hi THEN ValuesRow(acc, rows[lo], width, timeIdx, nodes)
    ELSE ValuesHalves(ValuesRows(acc, rows, lo, (lo + hi) \div 2, width, timeIdx, nodes),
                      rows, (lo + hi) \div 2, hi, width, timeIdx, nodes)

TimeName == <<"t","i","m","e">>

\* lines 487-515: the series of the rows
VectorSeries(acc) == ParsedSeries(acc.time, acc.voltages)

\* lines 486-493: the arrays of the nodes, empty
VectorRows(rows, width, timeIdx, nodes) ==
    VectorSeries(
        ValuesRows([time |-> << >>,
                    voltages |-> [k \in DOMAIN nodes |->
                                     [key |-> nodes[k].key, val |-> << >>]]],
                   rows, 1, Len(rows), width, timeIdx, nodes))

\* lines 472-484: timeIdx and voltageIndices
VectorColumns(indexToName, rows) ==
    IF \A k \in DOMAIN indexToName : indexToName[k] # TimeName THEN NoTransient
    ELSE VectorRows(rows, Len(indexToName),
                    Min({k \in DOMAIN indexToName : indexToName[k] = TimeName}),
                    ObjectEntries(VoltageIndices(EmptyObject, indexToName, 1)))

\* lines 454-470
VectorBlocks(varsBlockMatch, valuesBlockMatch) ==
    IF ~varsBlockMatch.ok \/ ~valuesBlockMatch.ok THEN NoTransient
    ELSE VectorColumns(IndexToName(varsBlockMatch.data), valuesBlockMatch.data)

\* lines 448-516: the standard format
VectorFormat(output) ==
    IF ~HasTransientPlot(output) THEN NoTransient
    ELSE VectorBlocks(VarsBlockMatch(output), ValuesBlockMatch(output))

\* lines 441-445
CustomOrVector(output, customFormatMatch) ==
    IF customFormatMatch.ok THEN parseCustomTransientFormat(customFormatMatch.data)
    ELSE VectorFormat(output)

parseTransientData(output) == CustomOrVector(output, CustomFormatMatch(output))

----------------------------------------------------------------------------
(* parseNgSpiceOutput and the close handler of runNgSpice *)

NoOperatingPoint == <<[key |-> <<"undefined">>, val |-> NotANumber]>>

\* lines 319-327
WithTransient(operatingPoint, output) ==
    IF Len(operatingPoint) > 0
    THEN [operatingPoint |-> operatingPoint,
          transientData |-> parseTransientData(output)]
    ELSE [operatingPoint |-> NoOperatingPoint, transientData |-> NoTransient]

\* parseNgSpiceOutput(output): [operatingPoint, transientData], a field the
\* code leaves unset being NoOperatingPoint or NoTransient
parseNgSpiceOutput(output) ==
    WithTransient(OperatingPointOf(EmptyObject, output, 1, Len(output)), output)

\* transientData.time?.length > 2: the length a series must exceed to be
\* put into the result by the close handler
MinTransientPoints == 2

\* lines 221-228 of the close handler
Merged(parsedResult, transientData) ==
    IF transientData # NoTransient /\ Len(transientData.time) > MinTransientPoints
    THEN [parsedResult EXCEPT !.transientData = transientData]
    ELSE parsedResult

\* lines 236-248 of the close handler
Resolved(merged, last) ==
    IF merged.operatingPoint = NoOperatingPoint \/ Len(merged.operatingPoint) = 0
    THEN [success |-> TRUE] @@ performBasicCircuitAnalysis(last)
    ELSE [success |-> TRUE] @@ merged

\* the value the close handler resolves with for exit code 0
CloseResult(output, last) ==
    Resolved(Merged(parseNgSpiceOutput(output), parseTransientData(output)), last)

----
(* What the engine prints: operating-point lines and a table of the        *)
(* transient analysis, in the engine's "Index time v(1)" print format or   *)
(* in its "Variables: / Values:" format                                    *)

BannerLine == <<"N","o","t","e",":"," ","N","o"," ","c","o","m","p","a","t","i","b","i","l","i","t","y"," ","m","o","d","e"," ","s","e","l","e","c","t","e","d","!">>
VoltageLine == <<"v","(","1",")"," ","="," ","5",".","0","0","0","0","0","0","e","+","0","0">>
CurrentLine == <<"i","(","v","v","1",")"," ","="," ","-","5",".","0","0","0","0","0","0","e","-","0","3">>
HeaderLine == <<"I","n","d","e","x"," "," "," ","t","i","m","e"," "," "," "," "," "," "," "," "," "," "," "," ","v","(","1",")">>
DashLine == <<"-","-","-","-","-","-","-","-","-","-","-","-","-","-","-","-","-","-","-","-">>
PlotLine == <<"P","l","o","t","n","a","m","e",":"," ","T","r","a","n","s","i","e","n","t"," ","A","n","a","l","y","s","i","s">>
VariablesLine == <<"V","a","r","i","a","b","l","e","s",":">>
TimeVarLine == <<"\t","0","\t","t","i","m","e","\t","t","i","m","e">>
NodeVarLine == <<"\t","1","\t","v","(","1",")","\t","v","o","l","t","a","g","e">>
ValuesLine == <<"V","a","l","u","e","s",":">>

\* the k-th row of a table: time k * 1e-5 and the value 5.000000e+00
TimeText(k) == NumToStr(Dec(k, -5))
CustomRow(k, sep) == RowText(NatToText(k), <<TimeText(k), Lit5000000ep00>>, sep)
ValuesRowText(k) == TimeText(k) \o <<"\t">> \o Lit5000000ep00

CustomTable(n, sep) ==
    <<HeaderLine, DashLine>> \o [k \in 1..n |-> CustomRow(k - 1, sep)] \o << << >> >>

ValuesTable(n) ==
    <<PlotLine, VariablesLine, TimeVarLine, NodeVarLine, ValuesLine>>
        \o [k \in 1..n |-> ValuesRowText(k - 1)] \o << << >> >>

OperatingPointLines == <<VoltageLine, CurrentLine>>

\* the numbers of rows of the tables: around the two thresholds
TableSizes ==
    {0, 1, MinTransientPoints, MinTransientPoints + 1,
     CustomMinPoints, CustomMinPoints + 1}

Tables ==
    { << >> } \cup {CustomTable(n, sep) : n \in TableSizes, sep \in Separators}
              \cup {ValuesTable(n) : n \in TableSizes}

EngineOutputs ==
    {<<BannerLine>> \o op \o table \o <<BannerLine>> :
        op \in {<< >>, OperatingPointLines}, table \in Tables}

ShortOutputs ==
    {<<BannerLine>> \o op : op \in {<< >>, OperatingPointLines}}

----------------------------------------------------------------------------
(* simulate and runNgSpice on the shared ngspiceInterface *)

\* ensureSingleEnd, on the last lines of the text:
\* src.replace(/\n?\.end\s*$/i, "").trimEnd() + "\n.end\n"
EnsureEnd(text) ==
    LET body == trimEnd(text)
        n == Len(body)
        hasEnd == n >= 4 /\ LitAt(body, n - 3, <<".","e","n","d">>, TRUE)
        cut == IF n >= 5 /\ body[n - 4] = "\n" THEN n - 5 ELSE n - 4
        noTrailingEnd == IF hasEnd THEN SubSeq(body, 1, cut) ELSE text
    IN  trimEnd(noTrailingEnd) \o <<"\n",".","e","n","d","\n">>

\* an end card appended without taking a trailing .end away first
appendEnd(src) ==
    [src EXCEPT !.ending = trimEnd(src.ending) \o <<"\n",".","e","n","d","\n">>]

ensureSingleEnd(src) == [src EXCEPT !.ending = EnsureEnd(src.ending)]

\* the circuits sent to POST /simulate
Battery(ref, value, plus, minus) ==
    Comp("battery", "", ref, value, << >>, Pins2(minus, plus))
Resistor(ref, value, a, b) == Comp("resistor", "", ref, value, << >>, Pins2(a, b))

RefV1 == <<"V","1">>
RefR1 == <<"R","1">>
Five == <<"5">>
OneK == <<"1","k">>

Circuits ==
    { <<Battery(RefV1, Five, NetA, NetZero), Resistor(RefR1, OneK, NetA, NetGnd)>>,
      <<Battery(<< >>, Five, NetA, NetZero), Resistor(RefR1, OneK, NetA, NetZero)>>,
      <<Battery(RefV1, Five, NetA, NetA), Resistor(RefR1, OneK, NetA, NetZero)>>,
      <<Resistor(RefR1, OneK, NetB, NetZero), Battery(RefV1, Five, NetB, NetZero)>>,
      <<Battery(RefV1, <<"9">>, NetX, NetZero), Resistor(RefR1, <<"3","k">>, NetX, NetB),
        Resistor(<<"R","2">>, OneK, NetB, NetZero)>> }

\* lines 103-116 of simulate, from this.lastNetlist = ... to the call of
\* writeFile, for the call c with this.tempDir = dir
Keep(c, dir, spiceResult) ==
    /\ lastNetlist' = [netlist |-> spiceResult.netlist,
                       netToNodeMap |-> ObjectEntries(spiceResult.netToNodeMap)]
    /\ fullNetlist' = [fullNetlist EXCEPT ![c] = spiceResult.netlist]
    /\ netlistPath' = [netlistPath EXCEPT ![c] = dir]
    /\ at' = [at EXCEPT ![c] = "writeNetlist"]

\* lines 67-116 of simulate, from the netlist generation on
Prepare(c, dir) == Keep(c, dir, generateSimpleSpiceNetlist(request[c]))

\* result.transientData || { time: [], voltages: {}, currents: {} }
OrEmptySeries(transientData) ==
    IF transientData \in {NoSeries, NoTransient}
    THEN [kind |-> "empty", time |-> << >>, voltages |-> EmptyObject,
          currents |-> EmptyObject]
    ELSE transientData

\* POST /simulate, lines 54-72 of the route, on the value simulate resolved
\* with: status 400 with the error as details, else the data of the result
Route(simResult) ==
    IF ~simResult.success
    THEN [status |-> 400, error |-> "Simulation failed", details |-> simResult.error]
    ELSE [status |-> 200, success |-> TRUE,
          data |-> [operatingPoint |-> simResult.operatingPoint,
                    netToNodeMap |-> simResult.netToNodeMap,
                    transientData |-> OrEmptySeries(simResult.transientData)]]

\* the catch of the route, lines 86-90, on an error thrown by simulate
RouteCatch(message) ==
    [status |-> 400, success |-> FALSE, error |-> message]

\* simulate returns simResult to the route, which answers; nothing else changes
Return(c, simResult) ==
    /\ response' = [response EXCEPT ![c] = simResult]
    /\ reply' = [reply EXCEPT ![c] = Route(simResult)]
    /\ at' = [at EXCEPT ![c] = "returned"]

\* the message of an error thrown by mkdtemp, writeFile or readFile
FsError == "ENOSPC: no space left on device"

\* simulate(components) is called: await this.init() when there is no
\* tempDir, else straight on to the write of circuit.cir
Simulate(c) ==
    /\ at[c] = "idle"
    /\ IF tempDir = NoDir
       THEN /\ at' = [at EXCEPT ![c] = "init"]
            /\ UNCHANGED <<tempDir, lastNetlist, fullNetlist, netlistPath>>
       ELSE /\ Prepare(c, tempDir)
            /\ UNCHANGED tempDir
    /\ UNCHANGED <<request, files, finalNetlist, scriptPath, engineDeck, exitCode,
                   stdout, response, reply, spawns>>
    /\ UNCHANGED <<genVars, tokVars, valVars, decVars, allocVars>>

\* mkdtemp resolves in init(): this.tempDir is the new directory
InitDone(c) ==
    /\ at[c] = "init"
    /\ tempDir' = c
    /\ Prepare(c, c)
    /\ UNCHANGED <<request, files, finalNetlist, scriptPath, engineDeck, exitCode,
                   stdout, response, reply, spawns>>
    /\ UNCHANGED <<genVars, tokVars, valVars, decVars, allocVars>>

\* mkdtemp rejects: await this.init() at line 52 stands before the try, so
\* simulate rejects and the catch of the route answers
InitFails(c) ==
    /\ at[c] = "init"
    /\ at' = [at EXCEPT ![c] = "thrown"]
    /\ reply' = [reply EXCEPT ![c] = RouteCatch(FsError)]
    /\ UNCHANGED <<request, tempDir, lastNetlist, files, netlistPath, fullNetlist,
                   finalNetlist, scriptPath, engineDeck, exitCode, stdout, response,
                   spawns>>
    /\ UNCHANGED <<genVars, tokVars, valVars, decVars, allocVars>>

\* await writeFile(netlistPath, fullNetlist)
WriteNetlist(c) ==
    /\ at[c] = "writeNetlist"
    /\ files' = [files EXCEPT ![<<netlistPath[c], "circuit.cir">>] = fullNetlist[c]]
    /\ at' = [at EXCEPT ![c] = "readNetlist"]
    /\ UNCHANGED <<request, tempDir, lastNetlist, netlistPath, fullNetlist,
                   finalNetlist, scriptPath, engineDeck, exitCode, stdout, response,
                   reply, spawns>>
    /\ UNCHANGED <<genVars, tokVars, valVars, decVars, allocVars>>

\* writeFile(netlistPath, ..) rejects inside the try of simulate: the catch
\* at lines 129-136 returns success: false with the message
WriteNetlistFails(c) ==
    /\ at[c] = "writeNetlist"
    /\ Return(c, [success |-> FALSE, error |-> FsError])
    /\ UNCHANGED <<request, tempDir, lastNetlist, files, netlistPath, fullNetlist,
                   finalNetlist, scriptPath, engineDeck, exitCode, stdout, spawns>>
    /\ UNCHANGED <<genVars, tokVars, valVars, decVars, allocVars>>

\* runNgSpice: await fsReadFile(netlistPath), ensureSingleEnd, scriptPath
ReadNetlist(c) ==
    /\ at[c] = "readNetlist"
    /\ finalNetlist' = [finalNetlist EXCEPT
                           ![c] = ensureSingleEnd(files[<<netlistPath[c], "circuit.cir">>])]
    /\ scriptPath' = [scriptPath EXCEPT ![c] = tempDir]
    /\ at' = [at EXCEPT ![c] = "writeScript"]
    /\ UNCHANGED <<request, tempDir, lastNetlist, files, netlistPath, fullNetlist,
                   engineDeck, exitCode, stdout, response, reply, spawns>>
    /\ UNCHANGED <<genVars, tokVars, valVars, decVars, allocVars>>

\* fsReadFile rejects inside the async executor of new Promise (line 167):
\* the executor's own promise rejects, resolve is never called
ReadNetlistFails(c) ==
    /\ at[c] = "readNetlist"
    /\ at' = [at EXCEPT ![c] = "unsettled"]
    /\ UNCHANGED <<request, tempDir, lastNetlist, files, netlistPath, fullNetlist,
                   finalNetlist, scriptPath, engineDeck, exitCode, stdout, response,
                   reply, spawns>>
    /\ UNCHANGED <<genVars, tokVars, valVars, decVars, allocVars>>

\* runNgSpice: await writeFile(scriptPath, netlist), then spawn
WriteScript(c) ==
    /\ at[c] = "writeScript"
    /\ files' = [files EXCEPT ![<<scriptPath[c], "simulation.cir">>] = finalNetlist[c]]
    /\ spawns' = [spawns EXCEPT ![c] = @ + 1]
    /\ at' = [at EXCEPT ![c] = "spawned"]
    /\ UNCHANGED <<request, tempDir, lastNetlist, netlistPath, fullNetlist,
                   finalNetlist, scriptPath, engineDeck, exitCode, stdout, response,
                   reply>>
    /\ UNCHANGED <<genVars, tokVars, valVars, decVars, allocVars>>

\* writeFile(scriptPath, ..) rejects inside the async executor: as for
\* fsReadFile, resolve is never called and nothing is spawned
WriteScriptFails(c) ==
    /\ at[c] = "writeScript"
    /\ at' = [at EXCEPT ![c] = "unsettled"]
    /\ UNCHANGED <<request, tempDir, lastNetlist, files, netlistPath, fullNetlist,
                   finalNetlist, scriptPath, engineDeck, exitCode, stdout, response,
                   reply, spawns>>
    /\ UNCHANGED <<genVars, tokVars, valVars, decVars, allocVars>>

\* the engine spawned for the call opens the file named on its command line
EngineLoad(c) ==
    /\ at[c] = "spawned"
    /\ engineDeck' = [engineDeck EXCEPT ![c] = files[<<scriptPath[c], "simulation.cir">>]]
    /\ at' = [at EXCEPT ![c] = "running"]
    /\ UNCHANGED <<request, tempDir, lastNetlist, files, netlistPath, fullNetlist,
                   finalNetlist, scriptPath, exitCode, stdout, response, reply, spawns>>
    /\ UNCHANGED <<genVars, tokVars, valVars, decVars, allocVars>>

\* lines 124-126 of simulate: the map of this.lastNetlist added to the result
WithNodeMap(resolved) ==
    IF resolved.success /\ lastNetlist # NoNetlist
    THEN resolved @@ [netToNodeMap |-> lastNetlist.netToNodeMap]
    ELSE resolved

\* a result for a non-zero exit code that says nothing
ExitedSilently(code) == [success |-> FALSE, error |-> ""]

\* lines 208-214 of the close handler: the result for a non-zero exit code
\* (stderr left out of the text)
ExitedWith(code) ==
    [success |-> FALSE, error |-> "NGSpice exited with code " \o ToString(code) \o ": "]

\* lines 259-264, the error handler of spawn
FailedToStart ==
    [success |-> FALSE, error |-> "Failed to start NGSpice: spawn ngspice ENOENT"]

\* the close event of the engine, having printed output, and the rest of
\* simulate
EngineClose(c, code, output) ==
    /\ at[c] = "running"
    /\ exitCode' = [exitCode EXCEPT ![c] = code]
    /\ stdout' = [stdout EXCEPT ![c] = output]
    /\ Return(c, IF code # 0 THEN ExitedWith(code)
                 ELSE WithNodeMap(CloseResult(output, lastNetlist)))
    /\ UNCHANGED <<request, tempDir, lastNetlist, files, netlistPath, fullNetlist,
                   finalNetlist, scriptPath, engineDeck, spawns>>
    /\ UNCHANGED <<genVars, tokVars, valVars, decVars, allocVars>>

\* the error event of spawn: the engine could not be started
EngineError(c) ==
    /\ at[c] = "spawned"
    /\ Return(c, FailedToStart)
    /\ UNCHANGED <<request, tempDir, lastNetlist, files, netlistPath, fullNetlist,
                   finalNetlist, scriptPath, engineDeck, exitCode, stdout, spawns>>
    /\ UNCHANGED <<genVars, tokVars, valVars, decVars, allocVars>>

ExitCodes == {0, 1}

\* the circuits of a single request: those of Circuits, a resistor alone and
\* a battery with its + pin on ground
SimCircuits ==
    Circuits \cup { <<Resistor(RefR1, OneK, NetA, NetZero)>>,
                    <<Battery(RefV1, Five, NetZero, NetA),
                      Resistor(RefR1, OneK, NetA, NetZero)>> }

\* one request on a fresh interface, the engine printing any of EngineOutputs
SimInit ==
    /\ request \in [Calls -> SimCircuits]
    /\ request[2] = request[1]
    /\ at = [c \in Calls |-> "idle"]
    /\ tempDir = NoDir
    /\ lastNetlist = NoNetlist
    /\ files = [p \in Paths |-> NoText]
    /\ netlistPath = [c \in Calls |-> NoDir]
    /\ fullNetlist = [c \in Calls |-> NoText]
    /\ finalNetlist = [c \in Calls |-> NoText]
    /\ scriptPath = [c \in Calls |-> NoDir]
    /\ engineDeck = [c \in Calls |-> NoText]
    /\ exitCode = [c \in Calls |-> -1]
    /\ stdout = [c \in Calls |-> << >>]
    /\ response = [c \in Calls |-> NoResponse]
    /\ reply = [c \in Calls |-> NoReply]
    /\ spawns = [c \in Calls |-> 0]

SimNext ==
    \/ Simulate(1)
    \/ InitDone(1)
    \/ InitFails(1)
    \/ WriteNetlist(1)
    \/ WriteNetlistFails(1)
    \/ ReadNetlist(1)
    \/ ReadNetlistFails(1)
    \/ WriteScript(1)
    \/ WriteScriptFails(1)
    \/ EngineLoad(1)
    \/ \E code \in ExitCodes, output \in EngineOutputs : EngineClose(1, code, output)
    \/ EngineError(1)

InitSim == SimInit /\ GenIdle /\ TokIdle /\ ValIdle /\ DecIdle /\ AllocIdle

SpecSim == InitSim /\ [][SimNext]_vars

\* two requests with different component lists, in any interleaving
PairInit ==
    /\ request \in [Calls -> Circuits]
    /\ request[1] # request[2]
    /\ at = [c \in Calls |-> "idle"]
    /\ tempDir = NoDir
    /\ lastNetlist = NoNetlist
    /\ files = [p \in Paths |-> NoText]
    /\ netlistPath = [c \in Calls |-> NoDir]
    /\ fullNetlist = [c \in Calls |-> NoText]
    /\ finalNetlist = [c \in Calls |-> NoText]
    /\ scriptPath = [c \in Calls |-> NoDir]
    /\ engineDeck = [c \in Calls |-> NoText]
    /\ exitCode = [c \in Calls |-> -1]
    /\ stdout = [c \in Calls |-> << >>]
    /\ response = [c \in Calls |-> NoResponse]
    /\ reply = [c \in Calls |-> NoReply]
    /\ spawns = [c \in Calls |-> 0]

PairNext ==
    \E c \in Calls :
        \/ Simulate(c)
        \/ InitDone(c)
        \/ WriteNetlist(c)
        \/ ReadNetlist(c)
        \/ WriteScript(c)
        \/ EngineLoad(c)
        \/ \E code \in ExitCodes, output \in ShortOutputs : EngineClose(c, code, output)
        \/ EngineError(c)

InitPair == PairInit /\ GenIdle /\ TokIdle /\ ValIdle /\ DecIdle /\ AllocIdle

SpecPair == InitPair /\ [][PairNext]_vars

----------------------------------------------------------------------------
(* Properties of simulate on the shared interface *)

\* what the call c would get on an interface of its own: the deck and the
\* netlist record made from request[c]
OwnDeck(c) == ensureSingleEnd(generateSimpleSpiceNetlist(request[c]).netlist)

OwnNetlist(c) ==
    [netlist |-> generateSimpleSpiceNetlist(request[c]).netlist,
     netToNodeMap |-> ObjectEntries(generateSimpleSpiceNetlist(request[c]).netToNodeMap)]

OwnResponse(c) ==
    CloseResult(stdout[c], OwnNetlist(c)) @@ [netToNodeMap |-> OwnNetlist(c).netToNodeMap]

\* C7: of two simulate() calls with different component lists, in every
\* interleaving, the deck the engine loads for a call is the deck generated
\* from that call's components, and the result returned to a call for exit
\* code 0 (its netToNodeMap, and its fallback analysis when there is one) is
\* the one built from that call's components
C7_CallsAreIsolated ==
    \A c \in Calls :
        /\ (at[c] = "running" \/ (at[c] = "returned" /\ exitCode[c] # -1))
              => engineDeck[c] = OwnDeck(c)
        /\ (at[c] = "returned" /\ exitCode[c] = 0)
              => response[c] = OwnResponse(c)

\* the engine output holds a table of n rows, 1 <= n <= threshold
ShortTables ==
    {CustomTable(n, sep) : n \in 1..MinTransientPoints, sep \in Separators}
        \cup {ValuesTable(n) : n \in 1..MinTransientPoints}

HoldsShortTable(output) ==
    \E op \in {<< >>, OperatingPointLines}, table \in ShortTables :
        output = <<BannerLine>> \o op \o table \o <<BannerLine>>

\* C9: when the engine output holds a transient table of fewer time points
\* than the acceptance threshold (time.length > 2), in either table format
\* and with or without operating-point lines, the returned result carries
\* no transient series parsed from the output
C9_ShortTableIsNotReturned ==
    (at[1] = "returned" /\ exitCode[1] = 0 /\ HoldsShortTable(stdout[1]))
        => response[1].transientData.kind # "parsed"

\* a component list of exactly one battery of value 5 and one resistor of
\* value 1k, both with both pins on a net
IsBattery5Resistor1k(comps) ==
    /\ Len(comps) = 2
    /\ \E b, r \in 1..2 :
          /\ b # r
          /\ comps[b].kind = "battery" /\ comps[b].value = Five
          /\ comps[r].kind = "resistor" /\ comps[r].value = OneK
    /\ \A k \in 1..2, pin \in {<<"1">>, <<"2">>} : normalizeNet(PinNet(comps[k], pin)) # << >>

\* the node of the battery's + pin (pin 2) in the call's own map
PositiveNode(c) ==
    LET b == CHOOSE k \in 1..2 : request[c][k].kind = "battery"
    IN  Get(OwnNetlist(c).netToNodeMap, normalizeNet(PinNet(request[c][b], <<"2">>)))

\* C10: for one battery of value 5 and one resistor of value 1k, both fully
\* wired, when the engine exits with code 0 and its output has no operating-
\* point line and no table, the result is the fallback analysis with source
\* current 0.005 A and the source's positive node at 5 V in a two-sample
\* constant series
C10_FallbackIsFiveMilliamps ==
    (/\ at[1] = "returned" /\ exitCode[1] = 0
     /\ IsBattery5Resistor1k(request[1])
     /\ stdout[1] = <<BannerLine, BannerLine>>)
        => /\ response[1].success
           /\ response[1].transientData.kind = "fallback"
           /\ HasKey(response[1].operatingPoint, IVV1)
           /\ Get(response[1].operatingPoint, IVV1) = Dec(5, -3)
           /\ Len(response[1].transientData.time) = 2
           /\ HasKey(response[1].transientData.voltages, NatToText(PositiveNode(1)))
           /\ Get(response[1].transientData.voltages, NatToText(PositiveNode(1)))
                 = <<Dec(5, 0), Dec(5, 0)>>

\* a component list of one voltage source and one resistor, nothing else
IsOneSourceOneResistor(comps) ==
    /\ Len(comps) = 2
    /\ \E b, r \in 1..2 :
          b # r /\ comps[b].kind = "battery" /\ comps[r].kind = "resistor"

\* C11: when the engine exits with code 0, nothing is decoded from its output
\* (no operating-point line, no table) and the circuit is not one source and
\* one resistor, the request completes with success = false
C11_UndecodedOtherTopologyFails ==
    (/\ at[1] = "returned" /\ exitCode[1] = 0
     /\ stdout[1] = <<BannerLine, BannerLine>>
     /\ ~IsOneSourceOneResistor(request[1]))
        => ~response[1].success

\* the engine of the call exited with a non-zero code (exitCode > 0) or
\* could not be started (spawned, never closed)
EngineFailed(c) ==
    at[c] = "returned" /\ spawns[c] >= 1 /\ exitCode[c] # 0

\* C12: when the engine exits with a non-zero code or cannot be started, the
\* result has success = false and a non-empty error, no operating point, no
\* transient series and no fallback data, one engine was spawned and no
\* second, and the route answers with an error status; and every returned
\* result with success = false carries a non-empty error
C12_EngineFailureIsAnError ==
    \A c \in Calls :
        /\ EngineFailed(c) =>
              /\ ~response[c].success
              /\ DOMAIN response[c] = {"success", "error"}
              /\ response[c].error # ""
              /\ spawns[c] = 1
              /\ reply[c].status >= 400
              /\ reply[c].details = response[c].error
        /\ (at[c] = "returned" /\ ~response[c].success) =>
              /\ "error" \in DOMAIN response[c]
              /\ response[c].error # ""

\* a non-zero exit has been answered
C12_Witness ==
    /\ EngineFailed(1)
    /\ exitCode[1] = 1
    /\ engineDeck[1] # NoText
    /\ reply[1].status = 400

----------------------------------------------------------------------------
(* Progress of a request *)

\* the steps of runNgSpice that the event loop and the operating system
\* take once they are due: the continuations after each await, with either
\* outcome of the file operation, and the start of the engine or its failure
\* to start. The exit of a started engine is not among them: nothing in
\* runNgSpice makes a running engine exit.
Steps(c) ==
    \/ ReadNetlist(c) \/ ReadNetlistFails(c)
    \/ WriteScript(c) \/ WriteScriptFails(c)
    \/ EngineLoad(c) \/ EngineError(c)

SpecLive == InitSim /\ [][SimNext]_vars /\ WF_vars(Steps(1))

\* the promise of simulate has settled: it returned a result, or it rejected
\* and the route answered
Settled(c) == at[c] \in {"returned", "thrown"}

\* C13: every simulate() request that has reached the invocation step
\* eventually returns: a request whose engine never exits is ended (by a
\* timeout), and a request whose deck file cannot be read or written in
\* runNgSpice still returns, instead of staying pending forever
C13_EveryRequestReturns == (at[1] = "readNetlist") ~> Settled(1)

----------------------------------------------------------------------------
(* Temporary files *)

\* C14: when a request has returned, with success or with a failure, the
\* files it wrote (circuit.cir, simulation.cir) are gone and its temporary
\* directory is released
C14_TemporariesReleased ==
    at[1] = "returned" =>
        /\ \A p \in Paths : files[p] = NoText
        /\ tempDir = NoDir

----------------------------------------------------------------------------
(* parseValue on the value of a resistor, a capacitor or a battery *)

\* mantissas: the text and the number it denotes
Mantissas ==
    { [text |-> <<"1">>, num |-> Dec(1, 0)],
      [text |-> <<"1","5">>, num |-> Dec(15, 0)],
      [text |-> <<"1","0","0">>, num |-> Dec(100, 0)],
      [text |-> <<"2",".","2">>, num |-> Dec(22, -1)],
      [text |-> <<".","5">>, num |-> Dec(5, -1)],
      [text |-> <<"-","3">>, num |-> Dec(-3, 0)],
      [text |-> <<"1","e","3">>, num |-> Dec(1, 3)] }

\* the SI prefixes of the mult table of parseValue, lines 47-57, and none
Prefixes ==
    { [text |-> <<"t">>, exp |-> 12], [text |-> <<"g">>, exp |-> 9],
      [text |-> <<"m","e","g">>, exp |-> 6], [text |-> <<"k">>, exp |-> 3],
      [text |-> << >>, exp |-> 0], [text |-> <<"m">>, exp |-> -3],
      [text |-> <<"u">>, exp |-> -6], [text |-> <<"n">>, exp |-> -9],
      [text |-> <<"p">>, exp |-> -12], [text |-> <<"f">>, exp |-> -15] }

\* the prefixes other than m in upper case, and Meg
UpperPrefixes ==
    { [text |-> toUpperCase(p.text), exp |-> p.exp] :
        p \in {q \in Prefixes : q.text \notin { << >>, <<"m">> }} }
        \cup { [text |-> <<"M","e","g">>, exp |-> 6] }

\* the single upper-case M, and the micro sign
OtherPrefixes == { <<"M">>, <<Micro>> }

PrefixTexts ==
    {p.text : p \in Prefixes \cup UpperPrefixes} \cup OtherPrefixes

\* unit symbols written after the prefix, and none
Units == { << >>, <<"F">>, <<"V">>, <<"H">>, <<"<U+03A9>">>, <<"<U+2126>">> }

\* texts from which no number can be read
Numberless ==
    { << >>, <<" ">>, <<" ", "\t">>, <<"a","b","c">>, <<"k">>, <<".">>, <<"-">> }

DeclaredValues ==
    {n.text \o p \o u : n \in Mantissas, p \in PrefixTexts, u \in Units}
        \cup Numberless \cup {NoValue}

ValueKinds == {"resistor", "capacitor", "battery"}

\* the fallback the emitter of the kind hands to parseValue, lines 90, 95, 104
FallbackOf(kind) ==
    CASE kind = "resistor" -> Dec(1000, 0)
      [] kind = "capacitor" -> Dec(1, -6)
      [] kind = "battery" -> Dec(5, 0)

ValInit ==
    /\ declaredKind \in ValueKinds
    /\ declared \in DeclaredValues
    /\ quantity = NotReturned
    /\ emitted = NotReturned

\* the value on the only device line of the deck of one component
EmittedValue(spiceResult) == spiceResult.netlist.devices[1].value

\* parseValue(declared, fallback) as the emitter of the kind calls it, and
\* the deck generated for one component of the kind with value declared
ParseDeclared ==
    /\ quantity = NotReturned
    /\ quantity' = [done |-> TRUE,
                    num |-> parseValue(declared, FallbackOf(declaredKind))]
    /\ emitted' = [done |-> TRUE,
                   num |-> EmittedValue(generateSimpleSpiceNetlist(
                               <<Comp(declaredKind, "", RefR1, declared, << >>,
                                      Pins2(NetA, NetZero))>>))]
    /\ UNCHANGED <<declaredKind, declared>>
    /\ UNCHANGED <<genVars, tokVars, simVars, decVars, allocVars>>

InitVal == ValInit /\ GenIdle /\ TokIdle /\ SimIdle /\ DecIdle /\ AllocIdle

SpecVal == InitVal /\ [][ParseDeclared]_vars

----------------------------------------------------------------------------
(* Properties of parseValue *)

C16_UpperMIsMega ==
    quantity.done =>
        \A n \in Mantissas :
            /\ declared = n.text \o <<"M">> => quantity.num = Scale(n.num, 6)
            /\ declared = n.text \o <<"m">> => quantity.num = Scale(n.num, -3)

\* C17: a unit symbol after the prefix is ignored: n p, n p F, n p V, n p H
\* and n p Ohm parse to the same number, n times the factor of p
C17_UnitSymbolIgnored ==
    quantity.done =>
        \A n \in Mantissas, p \in Prefixes \cup UpperPrefixes, u \in Units :
            declared = n.text \o p.text \o u => quantity.num = Scale(n.num, p.exp)

\* C18: for an absent, empty or blank value and for a text without a
\* mantissa parseValue returns the fallback, and the resistor, capacitor or
\* battery is emitted with 1000, 1e-6 or 5
C18_NumberlessGivesFallback ==
    (quantity.done /\ declared \in Numberless \cup {NoValue}) =>
        /\ quantity.num = FallbackOf(declaredKind)
        /\ emitted.num = FallbackOf(declaredKind)

----------------------------------------------------------------------------
(* Properties of the control cards of the deck *)

\* C19: in the deck returned, the node indices named v(<index>) on the
\* wrdata and print lines are exactly the non-ground indices of the NodeMap
\* returned with it
C19_ExportListsNonGroundNodes ==
    Returned =>
        {result.netlist.nodeList[k] : k \in DOMAIN result.netlist.nodeList}
            = {v \in Values(result.netToNodeMap) : v # 0}

\* a deck with two exported nodes and a ground pin has been returned
C19_Witness ==
    /\ Returned
    /\ Len(result.netlist.nodeList) >= 2
    /\ \E k \in DOMAIN result.netlist.devices : 0 \in Range(result.netlist.devices[k].nodes)

----------------------------------------------------------------------------
(* Properties of the end of the deck *)

\* text.split("\n")
RECURSIVE SplitLines(_)
SplitLines(text) ==
    IF \A k \in DOMAIN text : text[k] # "\n" THEN <<text>>
    ELSE LET n == CHOOSE k \in DOMAIN text :
                      text[k] = "\n" /\ \A j \in 1..(k - 1) : text[j] # "\n"
         IN  <<SubSeq(text, 1, n - 1)>> \o SplitLines(SubSeq(text, n + 1, Len(text)))

\* the lines of a deck from its first device line on, without the empty
\* text after a closing newline
DeckLines(deck) ==
    LET tail == SplitLines(deck.ending)
        all == [k \in DOMAIN deck.devices |-> LineText(deck.devices[k])] \o tail
    IN  IF all[Len(all)] = << >> THEN SubSeq(all, 1, Len(all) - 1) ELSE all

IsEndMarker(line) == toLowerCase(trim(line)) = <<".","e","n","d">>

\* the deck of the call has gone through ensureSingleEnd
Finalized(c) == at[c] \in {"writeScript", "spawned", "running"}

\* C20: the text made by ensureSingleEnd from a generated deck has exactly
\* one .end line, which is its last line, and ensureSingleEnd applied to it
\* again gives the same text
C20_SingleEndMarker ==
    Finalized(1) =>
        /\ Cardinality({k \in DOMAIN DeckLines(finalNetlist[1]) :
                            IsEndMarker(DeckLines(finalNetlist[1])[k])}) = 1
        /\ IsEndMarker(DeckLines(finalNetlist[1])[Len(DeckLines(finalNetlist[1]))])
        /\ ensureSingleEnd(finalNetlist[1]) = finalNetlist[1]

\* the final deck of a generated deck that ended in .end without a newline
C20_Witness ==
    /\ Finalized(1)
    /\ fullNetlist[1].ending = EndCards
    /\ finalNetlist[1].ending # fullNetlist[1].ending
    /\ Len(finalNetlist[1].devices) >= 2

----------------------------------------------------------------------------
(* parseTransientData on tables whose rows differ in their number of values *)

\* the name of the k-th column after time
ColumnName(k) == <<"v","(">> \o NatToText(k) \o <<")">>

\* the value printed in the j-th column after time: j volts
ColumnText(j) == NatToText(j) \o <<".","0","0","0","0","0","0","e","+","0","0">>

\* the texts of a row of width values, the time first
RowTexts(k, width) == <<TimeText(k)>> \o [j \in 1..(width - 1) |-> ColumnText(j)]

\* "Index   time   v(1) ... v(cols)"
TableHeader(cols) ==
    <<"I","n","d","e","x">>
        \o Join(<<TimeName>> \o [k \in 1..cols |-> ColumnName(k)], <<" "," "," ">>)

\* the numbers of values, time included, a row of a table may hold
RowWidths == 1..3

\* the numbers of columns after time a header may declare
HeaderWidths == 1..2

\* the widths of the rows that come first in a table: none, one or two rows
RowShapes == UNION {[1..m -> RowWidths] : m \in 0..2}

\* the numbers of rows that follow them, each as wide as the header says
RowCounts == {MinTransientPoints + 1, CustomMinPoints - 1, CustomMinPoints + 1}

\* the print table: header, dashes, the rows of shapes, n rows of cols + 1
\* values, an empty line
MixedTable(cols, shapes, n, sep) ==
    <<TableHeader(cols), DashLine>>
        \o [k \in DOMAIN shapes |-> RowText(NatToText(k - 1), RowTexts(k - 1, shapes[k]), sep)]
        \o [k \in 1..n |-> RowText(NatToText(Len(shapes) + k - 1),
                                   RowTexts(Len(shapes) + k - 1, cols + 1), sep)]
        \o << << >> >>

\* "\t<k>\tv(<k>)\tvoltage"
VarLine(k) ==
    <<"\t">> \o NatToText(k) \o <<"\t">> \o ColumnName(k)
        \o <<"\t","v","o","l","t","a","g","e">>

\* a row of the Values block
VectorRow(k, width) == Tail(Join(RowTexts(k, width), <<"\t">>))

\* the Variables / Values blocks for cols node columns
MixedVectors(cols, shapes, n) ==
    <<PlotLine, VariablesLine, TimeVarLine>> \o [k \in 1..cols |-> VarLine(k)]
        \o <<ValuesLine>>
        \o [k \in DOMAIN shapes |-> VectorRow(k - 1, shapes[k])]
        \o [k \in 1..n |-> VectorRow(Len(shapes) + k - 1, cols + 1)]
        \o << << >> >>

PrintTables ==
    {MixedTable(cols, shapes, n, sep) :
        cols \in HeaderWidths, shapes \in RowShapes, n \in RowCounts, sep \in Separators}

VectorTables ==
    {MixedVectors(cols, shapes, MinTransientPoints + 1) :
        cols \in HeaderWidths, shapes \in RowShapes}

\* what the engine printed: a print table, followed or not by the vector
\* blocks of the same analysis, or the vector blocks alone, or neither
DecoderOutputs ==
    {<<BannerLine>> \o t \o v \o <<BannerLine>> :
        t \in PrintTables,
        v \in {<< >>, MixedVectors(1, << >>, MinTransientPoints + 1)}}
    \cup {<<BannerLine>> \o v \o <<BannerLine>> : v \in VectorTables}
    \cup {<<BannerLine>>}

DecInit ==
    /\ printed \in DecoderOutputs
    /\ decoded = NotDecoded

\* this.parseTransientData(stdout)
Decode ==
    /\ decoded = NotDecoded
    /\ decoded' = parseTransientData(printed)
    /\ UNCHANGED printed
    /\ UNCHANGED <<genVars, tokVars, simVars, valVars, allocVars>>

InitDec == DecInit /\ GenIdle /\ TokIdle /\ SimIdle /\ ValIdle /\ AllocIdle

SpecDec == InitDec /\ [][Decode]_vars

----------------------------------------------------------------------------
(* Properties of parseTransientData *)

\* the decoder returned a series
IsSeries(transient) == transient \notin {NotDecoded, NoTransient}

\* C21: in a series the decoder returns, the voltage vector of every node is
\* as long as the time vector
C21_VectorsAsLongAsTime ==
    IsSeries(decoded) =>
        \A k \in DOMAIN decoded.voltages :
            Len(decoded.voltages[k].val) = Len(decoded.time)

\* the print header is in the output and its table gives no series
TableRejected(output) ==
    /\ CustomFormatMatch(output).ok
    /\ parseCustomTransientFormat(CustomFormatMatch(output).data) = NoTransient

\* C24: when the print header is present, its table gives no series and the
\* output holds Variables / Values blocks that give one, the decoder returns
\* the series of the vector blocks
C24_VectorBlocksAfterRejectedTable ==
    (decoded # NotDecoded /\ TableRejected(printed) /\ IsSeries(VectorFormat(printed)))
        => decoded = VectorFormat(printed)

\* the line of the output that holds the print header, 0 if none
HeaderLineOf(output) ==
    First({h \in DOMAIN output : IsCustomHeader(output, h, DashesAfter(output, h))})

\* the number of columns the header declares: time and one per v(<index>)
DeclaredColumns(output) == Len(Words(trim(output[HeaderLineOf(output)]))) - 1

\* the number of value tokens of a data row, its index left out
ValueTokens(row) == Len(Words(trim(row))) - 1

\* the data rows with as many value tokens as the header declares columns
MatchingRows(output) ==
    {k \in DOMAIN CustomFormatMatch(output).data :
        ValueTokens(CustomFormatMatch(output).data[k]) = DeclaredColumns(output)}

\* the columns of every data row are separated by white space
IsSeparated(output) ==
    \A k \in DOMAIN CustomFormatMatch(output).data :
        ValueTokens(CustomFormatMatch(output).data[k]) >= 1

\* C25: the series of a print table holds one time point and one sample per
\* node for each data row with as many value tokens as the header declares
\* columns, and nothing for the other rows
C25_MismatchedRowsDropped ==
    (IsSeries(decoded) /\ CustomFormatMatch(printed).ok /\ IsSeparated(printed)) =>
        /\ Len(decoded.time) = Cardinality(MatchingRows(printed))
        /\ Len(decoded.voltages) = DeclaredColumns(printed) - 1
        /\ \A k \in DOMAIN decoded.voltages :
              Len(decoded.voltages[k].val) = Cardinality(MatchingRows(printed))

----------------------------------------------------------------------------
(* touch called any number of times on one emitter *)

\* the names touch is called with
NetNames ==
    { << >>, NetBlank, NetZero, NetGnd, NetA, <<"A"," ">>, NetB, <<"2">> }

\* const E = makeEmitter(Object.create(null))
AllocInit ==
    /\ nodeMap = makeEmitter(NewNodeMap)
    /\ touched = << >>
    /\ returned = << >>

\* E.touch(netName)
Touch(netName) ==
    /\ Len(touched) < MaxTouches
    /\ nodeMap' = touch(nodeMap, netName).map
    /\ touched' = Append(touched, netName)
    /\ returned' = Append(returned, touch(nodeMap, netName).node)
    /\ UNCHANGED <<genVars, tokVars, simVars, valVars, decVars>>

TouchAny == \E netName \in NetNames : Touch(netName)

InitAlloc == AllocInit /\ GenIdle /\ TokIdle /\ SimIdle /\ ValIdle /\ DecIdle

SpecAlloc == InitAlloc /\ [][TouchAny]_vars

----------------------------------------------------------------------------
(* Properties of touch *)

\* the normalized name of the j-th touch
Touched(j) == normalizeNet(touched[j])

IsGroundName(n) == n \in {<< >>, <<"0">>}

\* the nets other than ground among the first j touches
NetsUpTo(j) == {Touched(m) : m \in 1..j} \ {<< >>, <<"0">>}

\* the first touch of the net of the j-th touch
FirstTouch(j) == Min({m \in 1..j : Touched(m) = Touched(j)})

\* C22: a touch of "" or of ground returns 0; a touch of a net returns the
\* number of nets first touched up to its own first touch; the map holds
\* "0" -> 0 followed by one entry per net touched, numbered 1..k in the order
\* of first touch
C22_TouchAllocatesInOrder ==
    /\ \A j \in DOMAIN touched :
          returned[j] = IF IsGroundName(Touched(j)) THEN 0
                        ELSE Cardinality(NetsUpTo(FirstTouch(j)))
    /\ Len(returned) = Len(touched)
    /\ Len(nodeMap) = 1 + Cardinality(NetsUpTo(Len(touched)))
    /\ nodeMap[1] = [key |-> <<"0">>, val |-> 0]
    /\ \A k \in 2..Len(nodeMap) :
          /\ nodeMap[k].val = k - 1
          /\ \E j \in DOMAIN touched :
                nodeMap[k].key = Touched(j) /\ returned[j] = k - 1

\* two nets allocated, one of them touched again under another spelling, and
\* ground touched
C22_Witness ==
    /\ Len(touched) = MaxTouches
    /\ Values(nodeMap) = {0, 1, 2}
    /\ \E j \in DOMAIN touched : IsGroundName(Touched(j))
    /\ \E j, m \in DOMAIN touched :
          j < m /\ touched[j] # touched[m] /\ Touched(j) = Touched(m)
                /\ ~IsGroundName(Touched(j))

----------------------------------------------------------------------------
(* Properties of the components the generator skips *)

\* the component has the pin and a net on it
IsWired(comp, label) ==
    \E k \in DOMAIN comp.pins : comp.pins[k].key = label /\ comp.pins[k].val # << >>

\* a resistor, capacitor, diode, LED or battery without a net on pin 1 or 2, a
\* transistor without a net on C, B or E, an "ic", or a kind the switch has
\* no case for
IsSkipped(comp) ==
    \/ /\ comp.kind \in {"resistor", "capacitor", "diode", "led", "battery"}
       /\ ~(IsWired(comp, <<"1">>) /\ IsWired(comp, <<"2">>))
    \/ /\ comp.kind = "transistor"
       /\ ~(IsWired(comp, <<"C">>) /\ IsWired(comp, <<"B">>) /\ IsWired(comp, <<"E">>))
    \/ comp.kind = "ic"
    \/ comp.kind \notin {"resistor", "capacitor", "diode", "led", "battery",
                         "transistor", "node", "ic"} \cup DISPLAY_ONLY_TYPES

\* C23: the iteration over a skipped component leaves the NodeMap and the
\* device lines unchanged, and a net wired only to skipped components is no
\* key of the NodeMap returned
C23_SkippedLeavesNoTrace ==
    /\ (i >= 1 /\ IsSkipped(components[i])) =>
          (netToNodeMap = prevMap /\ lines = prevLines)
    /\ Returned =>
          \A j \in DOMAIN components : \A k \in DOMAIN components[j].pins :
              LET n == Canonical(components[j].pins[k].val)
              IN  (/\ n \notin {<< >>, <<"0">>}
                   /\ \A c \in DOMAIN components :
                         WiredTo(components[c], n) => IsSkipped(components[c]))
                  => ~HasKey(result.netToNodeMap, n)

\* a resistor that emitted its line, then a capacitor, battery, LED or
\* transistor that lacks a net on a pin and has another pin on net X
C23_Witness ==
    /\ Returned
    /\ Len(components) = 2
    /\ ~IsSkipped(components[1]) /\ Len(lines) = 1
    /\ components[2].kind \in {"capacitor", "battery", "led", "transistor"}
    /\ IsSkipped(components[2])
    /\ WiredTo(components[2], NetX)
    /\ ~HasKey(result.netToNodeMap, NetX)

----------------------------------------------------------------------------
(* Properties of the device models of the deck *)

DZ4V7 == <<"D","Z","4","V","7">>

\* the names defined by the .model lines of the deck
ModelCards == {BC337, BC549, DZ6V8, DZ4V7}

\* C28: the model named on a diode, LED, transistor or DNOISE line of the deck
\* returned is defined by a .model line of the deck; the model of a
\* transistor line is BC549 or BC337, and BC549 when the model declared for
\* the transistor names both
C28_ModelsAreDefined ==
    Returned =>
        /\ \A k \in DOMAIN result.netlist.devices :
              result.netlist.devices[k].dev \in {"D", "Q", "DNOISE"}
                  => result.netlist.devices[k].model \in ModelCards
        /\ \A k \in DOMAIN lines :
              lines[k].dev = "Q" =>
                  /\ lines[k].model \in {BC549, BC337}
                  /\ (/\ includes(toUpperCase(components[origin[k]].model), BC549)
                      /\ includes(toUpperCase(components[origin[k]].model), BC337))
                        => lines[k].model = BC549

----------------------------------------------------------------------------
(* Properties of the columns of the print directive *)

\* the entries of the map other than ground
NonGround(map) == {k \in DOMAIN map : map[k].val > 0}

\* C29: for a component list without junctions, the print directive of the
\* deck returned names v(1), v(2), ..., v(N) in this order, N being the
\* number of entries of the NodeMap other than ground, so that the k-th
\* column after time holds node k
C29_PrintColumnsInNodeOrder ==
    (Returned /\ NoJunction) =>
        result.netlist.nodeList =
            [k \in 1..Cardinality(NonGround(result.netToNodeMap)) |-> k]

----------------------------------------------------------------------------
(* Properties of the fallback of the close handler *)

\* the engine of call c exited with code 0 and the request has returned
ClosedClean(c) == at[c] = "returned" /\ exitCode[c] = 0

\* the output holds a series the close handler accepts
HoldsAcceptedSeries(output) ==
    /\ IsSeries(parseTransientData(output))
    /\ Len(parseTransientData(output).time) > MinTransientPoints

\* no line of the output is an operating-point line
HoldsNoOperatingPoint(output) ==
    OperatingPointOf(EmptyObject, output, 1, Len(output)) = EmptyObject

\* C26: when the engine output holds an accepted transient series and no
\* operating-point line, the result returned carries the series parsed from
\* the output and not the data of the fallback
C26_SeriesKeptWithoutOperatingPoint ==
    (/\ ClosedClean(1)
     /\ HoldsAcceptedSeries(stdout[1])
     /\ HoldsNoOperatingPoint(stdout[1]))
        => /\ response[1].transientData = parseTransientData(stdout[1])
           /\ response[1].operatingPoint = EmptyObject

\* the lines of the deck of call c for the device of a letter
LinesOf(c, letter) ==
    {k \in DOMAIN fullNetlist[c].devices : fullNetlist[c].devices[k].dev = letter}

\* the device lines of the deck are one voltage source and one resistor
IsSourceAndResistorDeck(c) ==
    /\ Len(fullNetlist[c].devices) = 2
    /\ Cardinality(LinesOf(c, "V")) = 1
    /\ Cardinality(LinesOf(c, "R")) = 1

\* the result of call c is the one of performBasicCircuitAnalysis
IsFallback(c) == ClosedClean(c) /\ response[c].transientData.kind = "fallback"

\* C27: the fallback reports no node voltage and no current for a deck whose
\* device lines are not exactly one voltage source and one resistor
C27_FallbackOnlyForSourceAndResistor ==
    (IsFallback(1) /\ ~IsSourceAndResistorDeck(1))
        => /\ response[1].operatingPoint = EmptyObject
           /\ response[1].transientData.voltages = EmptyObject
           /\ response[1].transientData.currents = EmptyObject

\* the voltage source line of the deck of call c
SourceLine(c) == fullNetlist[c].devices[CHOOSE k \in LinesOf(c, "V") : TRUE]

\* the terminal of the voltage source that is not ground
OtherTerminal(c) ==
    IF SourceLine(c).nodes[1] = 0 THEN SourceLine(c).nodes[2] ELSE SourceLine(c).nodes[1]

\* the fallback computed a result for a source with one terminal on ground
IsGroundedFallback(c) ==
    /\ IsFallback(c)
    /\ response[c].operatingPoint # EmptyObject
    /\ Cardinality(LinesOf(c, "V")) = 1
    /\ 0 \in {SourceLine(c).nodes[1], SourceLine(c).nodes[2]}
    /\ OtherTerminal(c) # 0

============================================================================
